---- MODULE Spec2Model ----
(***************************************************************************)
(* The escrow ledger of contracts/escrow-manager.clar as a state machine.  *)
(* Every public function of the contract is one action.  A call that the   *)
(* contract rejects is a step too: it changes nothing but `last`, the      *)
(* record of the most recent call and its response.                        *)
(* The dispute registry of contracts/targeting-engine.clar (lines 545 to   *)
(* 1114) is a second state machine over its own variables, with `dlast`    *)
(* as its call record.  The two contracts share no state but the clock.    *)
(***************************************************************************)
EXTENDS Integers, FiniteSets, Sequences, TLC

\* ------------------------------------------------------------------ bounds
MaxEscrows == 1
MaxMilestones == 1
MaxReleases == 2
MaxTicks == 1
MaxDisputes == 1
MaxEvidence == 1
MaxRulings == 21
MaxLateTicks == 2
MaxAllocations == 2
MaxAuditReleases == 3

\* --------------------------------------------------------------- constants
ErrOwnerOnly == 100
ErrNotFound == 101
ErrUnauthorized == 102
ErrInsufficientFunds == 103
ErrInvalidStatus == 104
ErrMilestoneIncomplete == 105
ErrEscrowExpired == 106
ErrEscrowActive == 107
ErrInvalidAmount == 108

STATUS_ACTIVE == 1
STATUS_RELEASED == 2
STATUS_REFUNDED == 3
STATUS_PARTIALLY_RELEASED == 4
STATUS_EXPIRED == 5

MILESTONE_PENDING == 1
MILESTONE_COMPLETED == 2
MILESTONE_FAILED == 3

\* (define-data-var max-escrow-duration uint u52560): no function sets it.
MaxEscrowDuration == 52560
\* (asserts! (<= new-fee u50) ...) in set-emergency-fee
MaxEmergencyFee == 50

\* Response codes of `last`: Ok for (ok ...), an Err* code for (err uN), and
\* RuntimeAbort for a transaction aborted by uint underflow in (- a b).
Ok == 0
RuntimeAbort == 999

\* ------------------------------------------------------------------ inputs
Principals == {"D", "B", "O"}
\* the senders and beneficiaries create-escrow is tried with
Creators == {"D", "B"}
Beneficiaries == {"B"}
\* (define-constant contract-owner tx-sender): the deployer
ContractOwner == "O"
NoPrincipal == "-"

TimeStep == 1000
CampaignIds == {1}
CreateAmounts == {0, 15, 1000000}
Durations == {1000, 52561}
MilestoneAmounts == {0, 600000}
ReleaseAmounts == {400000, 1000000}
AdditionalTimes == {1000}
MinAmounts == {0}
FeeChoices == {33, 51}
Reasons == {"r"}
Descriptions == {"m"}
Deadlines == {2000}
ConditionHashes == {"none"}

EscrowIds == 1..MaxEscrows
MilestoneIds == 1..MaxMilestones
\* latest expiry the model lets extend-escrow-period reach
MaxExpiry == (MaxTicks + 1) * TimeStep

VARIABLES
    escrowNonce,            \* data-var escrow-nonce
    milestoneNonce,         \* data-var milestone-nonce (allocates release ids)
    minEscrowAmount,        \* data-var min-escrow-amount
    emergencyWithdrawalFee, \* data-var emergency-withdrawal-fee
    totalEscrowed,          \* data-var total-escrowed
    escrowAccounts,         \* map escrow-accounts: escrow-id -> record
    escrowMilestones,       \* map escrow-milestones: <<escrow-id, milestone-id>> -> record
    milestoneCount,         \* map milestone-count: escrow-id -> record
    escrowReleases,         \* map escrow-releases: <<escrow-id, release-id>> -> record
    pendingEscrows,         \* map pending-escrows: user -> record
    escrowHistory,          \* map escrow-history: user -> record
    now,                    \* stacks-block-time
    last                    \* the most recent call and its response

ledger == <<escrowNonce, milestoneNonce, minEscrowAmount, emergencyWithdrawalFee,
            totalEscrowed, escrowAccounts, escrowMilestones, milestoneCount,
            escrowReleases, pendingEscrows, escrowHistory>>

vars == <<escrowNonce, milestoneNonce, minEscrowAmount, emergencyWithdrawalFee,
          totalEscrowed, escrowAccounts, escrowMilestones, milestoneCount,
          escrowReleases, pendingEscrows, escrowHistory, now, last>>

\* -------------------------------------------- dispute registry: constants
DisputeErrOwnerOnly == 100
DisputeErrNotFound == 101
DisputeErrUnauthorized == 102
DisputeErrInvalidStatus == 103
DisputeErrAlreadyResolved == 104
DisputeErrInsufficientAmount == 105
DisputeErrInvalidParty == 106
DisputeErrEvidenceLimit == 107
DisputeErrAppealExpired == 108

STATUS_OPEN == 1
STATUS_UNDER_REVIEW == 2
STATUS_RESOLVED == 3
STATUS_APPEALED == 4
STATUS_CLOSED == 5

TYPE_PAYMENT == 1
TYPE_FRAUD == 2
TYPE_QUALITY == 3
TYPE_CONTRACT_BREACH == 4

OUTCOME_ADVERTISER_WINS == 1
OUTCOME_PUBLISHER_WINS == 2
OUTCOME_SPLIT == 3
OUTCOME_DISMISSED == 4

\* data vars no function sets
MinDisputeAmount == 1000000
MaxEvidencePerDispute == 10
ArbitrationFeePercentage == 5
\* (+ stacks-block-time u1440) in open-dispute, (+ stacks-block-time u720) in
\* assign-arbitrator
ResolutionWindow == 1440
ReviewWindow == 720
\* initial values of the data vars appeal-window and auto-resolve-threshold
InitialAppealWindow == 1440
InitialAutoResolveThreshold == 100000
\* (* (var-get auto-resolve-threshold) u5) in execute-ruling
AppealFactor == 5
\* reputation-score: default and cap u100, step u5
MaxReputation == 100
ReputationStep == 5

\* ----------------------------------------------- dispute registry: inputs
DisputePrincipals == {"D", "P", "A", "O"}
\* the callers and counterparties open-dispute is tried with
Openers == {"D"}
OtherParties == {"P", "D"}
Arbitrators == {"A"}
\* the callers submit-evidence is tried with
Submitters == {"D", "O"}
DisputeTypes == {TYPE_PAYMENT, 0}
DisputeAmounts == {500000, 1000001, 2000000}
VoteOutcomes == {0, OUTCOME_ADVERTISER_WINS, OUTCOME_PUBLISHER_WINS,
                 OUTCOME_SPLIT, OUTCOME_DISMISSED}
Thresholds == {1500000}
Windows == {1000}
EvidenceTypes == {"doc"}
EvidenceHashes == {"h"}
Texts == {"t"}
DisputeIds == 1..MaxDisputes

VARIABLES
    disputeNonce,           \* data-var dispute-nonce
    appealWindow,           \* data-var appeal-window
    autoResolveThreshold,   \* data-var auto-resolve-threshold
    totalDisputesResolved,  \* data-var total-disputes-resolved
    disputes,               \* map disputes: dispute-id -> record
    evidenceSubmissions,    \* map evidence-submissions: <<dispute-id, evidence-id>> -> record
    arbitratorAssignments,  \* map arbitrator-assignments: dispute-id -> record
    arbitratorVotes,        \* map arbitrator-votes: <<dispute-id, arbitrator>> -> record
    disputeOutcomes,        \* map dispute-outcomes: dispute-id -> record
    evidenceCount,          \* map evidence-count: dispute-id -> record
    disputeHistory,         \* map dispute-history: party -> record
    arbitratorStats,        \* map arbitrator-stats: arbitrator -> record
    dlast                   \* the most recent call to the registry and its response

dledger == <<disputeNonce, appealWindow, autoResolveThreshold, totalDisputesResolved,
             disputes, evidenceSubmissions, arbitratorAssignments, arbitratorVotes,
             disputeOutcomes, evidenceCount, disputeHistory, arbitratorStats>>

dvars == <<disputeNonce, appealWindow, autoResolveThreshold, totalDisputesResolved,
           disputes, evidenceSubmissions, arbitratorAssignments, arbitratorVotes,
           disputeOutcomes, evidenceCount, disputeHistory, arbitratorStats, dlast>>

allvars == <<vars, dvars>>

\* ----------------------------------------------------------- map helpers
\* (map-set m k v)
MapSet(m, k, v) == [x \in (DOMAIN m) \cup {k} |-> IF x = k THEN v ELSE m[x]]

\* (default-to d (map-get? m k))
DefaultTo(d, m, k) == IF k \in DOMAIN m THEN m[k] ELSE d

EmptyMap == [x \in {} |-> 0]

\* ------------------------------------------------------ the call record
\* `last` describes the most recent transaction: the function called, its
\* arguments, the response, and `pre`, the escrow record the call found (the
\* value of (map-get? escrow-accounts ...) bound at the top of the function).
NoEscrow ==
    [campaignId |-> 0, depositor |-> NoPrincipal, beneficiary |-> NoPrincipal,
     amount |-> 0, releasedAmount |-> 0, status |-> 0, createdAt |-> 0,
     expiry |-> 0, requiresMilestones |-> FALSE]

Call(op, sender) ==
    [op |-> op, sender |-> sender, escrowId |-> 0, milestoneId |-> 0,
     amount |-> 0, beneficiary |-> NoPrincipal, time |-> 0, flag |-> FALSE,
     code |-> Ok, ret |-> 0, pre |-> NoEscrow]

\* (err code): the transaction is rolled back, the ledger is untouched.  Of a
\* rejected call `last` keeps the function and the error code.
Reject(call, code) ==
    /\ last' = [Call(call.op, NoPrincipal) EXCEPT !.code = code]
    /\ UNCHANGED ledger

\* (ok ret); (ok true) is recorded as ret = 1
Respond(call, pre, ret) ==
    last' = [call EXCEPT !.code = Ok, !.ret = ret, !.pre = pre]

\* ------------------------------------------------------ private functions
\* mutant: the division is done before the multiplication
CalculateEmergencyFeeDivideFirst(amount) == (amount \div 100) * emergencyWithdrawalFee

CalculateEmergencyFee(amount) == (amount * emergencyWithdrawalFee) \div 100

UpdateUserPending(user, amount, isDeposit) ==
    LET pending == DefaultTo([totalLocked |-> 0, totalEscrowedOut |-> 0],
                             pendingEscrows, user)
    IN MapSet(pendingEscrows, user,
              IF isDeposit
              THEN [totalLocked |-> pending.totalLocked + amount,
                    totalEscrowedOut |-> pending.totalEscrowedOut]
              ELSE [totalLocked |-> pending.totalLocked,
                    totalEscrowedOut |-> pending.totalEscrowedOut + amount])

\* ---------------------------------------------------- read-only functions
GetMilestoneCount(escrowId) ==
    DefaultTo([total |-> 0, completed |-> 0], milestoneCount, escrowId)

IsEscrowExpired(escrowId) ==
    IF escrowId \in DOMAIN escrowAccounts
    THEN now >= escrowAccounts[escrowId].expiry
    ELSE FALSE

\* -------------------------------------------------------------------- Init
Init ==
    /\ escrowNonce = 0
    /\ milestoneNonce = 0
    /\ minEscrowAmount = 100000
    /\ emergencyWithdrawalFee = 10
    /\ totalEscrowed = 0
    /\ escrowAccounts = EmptyMap
    /\ escrowMilestones = EmptyMap
    /\ milestoneCount = EmptyMap
    /\ escrowReleases = EmptyMap
    /\ pendingEscrows = EmptyMap
    /\ escrowHistory = EmptyMap
    /\ now = 0
    /\ last = Call("deploy", ContractOwner)

\* ------------------------------------------------------------ create-escrow
\* mutant: create-escrow without the check that the beneficiary is not the caller
CreateEscrowCodeNoSelfCheck(sender, beneficiary, amount, duration) ==
    IF ~(amount >= minEscrowAmount) THEN ErrInvalidAmount
    ELSE IF ~(duration <= MaxEscrowDuration) THEN ErrInvalidStatus
    ELSE Ok

CreateEscrowCode(sender, beneficiary, amount, duration) ==
    IF ~(amount >= minEscrowAmount) THEN ErrInvalidAmount
    ELSE IF ~(duration <= MaxEscrowDuration) THEN ErrInvalidStatus
    ELSE IF ~(sender # beneficiary) THEN ErrUnauthorized
    ELSE Ok

CreateEscrow(sender, campaignId, beneficiary, amount, duration, requiresMilestones) ==
    LET escrowId == escrowNonce + 1
        expiry == now + duration
        code == CreateEscrowCode(sender, beneficiary, amount, duration)
        call == [Call("create-escrow", sender) EXCEPT
                    !.amount = amount, !.beneficiary = beneficiary,
                    !.time = duration, !.flag = requiresMilestones]
    IN IF code # Ok THEN Reject(call, code)
       ELSE /\ escrowAccounts' = MapSet(escrowAccounts, escrowId,
                   [campaignId |-> campaignId,
                    depositor |-> sender,
                    beneficiary |-> beneficiary,
                    amount |-> amount,
                    releasedAmount |-> 0,
                    status |-> STATUS_ACTIVE,
                    createdAt |-> now,
                    expiry |-> expiry,
                    requiresMilestones |-> requiresMilestones])
            /\ milestoneCount' =
                   IF requiresMilestones
                   THEN MapSet(milestoneCount, escrowId, [total |-> 0, completed |-> 0])
                   ELSE milestoneCount
            /\ pendingEscrows' = UpdateUserPending(sender, amount, TRUE)
            /\ totalEscrowed' = totalEscrowed + amount
            /\ escrowNonce' = escrowId
            /\ Respond(call, NoEscrow, escrowId)
            /\ UNCHANGED <<milestoneNonce, minEscrowAmount, emergencyWithdrawalFee,
                           escrowMilestones, escrowReleases, escrowHistory>>

\* ------------------------------------------------------------ add-milestone
\* mutant: add-milestone without the requires-milestones check
AddMilestoneCodeAnyEscrow(sender, escrowId) ==
    IF escrowId \notin DOMAIN escrowAccounts THEN ErrNotFound
    ELSE LET escrow == escrowAccounts[escrowId]
         IN IF ~(sender = escrow.depositor) THEN ErrUnauthorized
            ELSE IF ~(escrow.status = STATUS_ACTIVE) THEN ErrInvalidStatus
            ELSE Ok

AddMilestoneCode(sender, escrowId) ==
    IF escrowId \notin DOMAIN escrowAccounts THEN ErrNotFound
    ELSE LET escrow == escrowAccounts[escrowId]
         IN IF ~(sender = escrow.depositor) THEN ErrUnauthorized
            ELSE IF ~escrow.requiresMilestones THEN ErrInvalidStatus
            ELSE IF ~(escrow.status = STATUS_ACTIVE) THEN ErrInvalidStatus
            ELSE Ok

AddMilestone(sender, escrowId, description, amount, deadline, conditionHash) ==
    LET code == AddMilestoneCode(sender, escrowId)
        countData == GetMilestoneCount(escrowId)
        milestoneId == countData.total + 1
        call == [Call("add-milestone", sender) EXCEPT
                    !.escrowId = escrowId, !.amount = amount, !.time = deadline]
    IN IF code # Ok THEN Reject(call, code)
       ELSE /\ escrowMilestones' = MapSet(escrowMilestones, <<escrowId, milestoneId>>,
                   [description |-> description,
                    amount |-> amount,
                    status |-> MILESTONE_PENDING,
                    conditionHash |-> conditionHash,
                    deadline |-> deadline,
                    completedAt |-> 0])
            /\ milestoneCount' = MapSet(milestoneCount, escrowId,
                   [total |-> milestoneId, completed |-> countData.completed])
            /\ Respond(call, escrowAccounts[escrowId], milestoneId)
            /\ UNCHANGED <<escrowNonce, milestoneNonce, minEscrowAmount,
                           emergencyWithdrawalFee, totalEscrowed, escrowAccounts,
                           escrowReleases, pendingEscrows, escrowHistory>>

\* ------------------------------------------------------- complete-milestone
\* mutant: complete-milestone without the check that the milestone is Pending
CompleteMilestoneCodeAnyStatus(sender, escrowId, milestoneId) ==
    IF escrowId \notin DOMAIN escrowAccounts THEN ErrNotFound
    ELSE IF <<escrowId, milestoneId>> \notin DOMAIN escrowMilestones THEN ErrNotFound
    ELSE LET escrow == escrowAccounts[escrowId]
         IN IF ~(sender = escrow.beneficiary) THEN ErrUnauthorized
            ELSE Ok

CompleteMilestoneCode(sender, escrowId, milestoneId) ==
    IF escrowId \notin DOMAIN escrowAccounts THEN ErrNotFound
    ELSE IF <<escrowId, milestoneId>> \notin DOMAIN escrowMilestones THEN ErrNotFound
    ELSE LET escrow == escrowAccounts[escrowId]
             milestone == escrowMilestones[<<escrowId, milestoneId>>]
         IN IF ~(sender = escrow.beneficiary) THEN ErrUnauthorized
            ELSE IF ~(milestone.status = MILESTONE_PENDING) THEN ErrInvalidStatus
            ELSE Ok

CompleteMilestone(sender, escrowId, milestoneId) ==
    LET code == CompleteMilestoneCode(sender, escrowId, milestoneId)
        countData == GetMilestoneCount(escrowId)
        call == [Call("complete-milestone", sender) EXCEPT
                    !.escrowId = escrowId, !.milestoneId = milestoneId]
    IN IF code # Ok THEN Reject(call, code)
       ELSE /\ escrowMilestones' =
                   [escrowMilestones EXCEPT ![<<escrowId, milestoneId>>] =
                       [@ EXCEPT !.status = MILESTONE_COMPLETED, !.completedAt = now]]
            /\ milestoneCount' = MapSet(milestoneCount, escrowId,
                   [total |-> countData.total, completed |-> countData.completed + 1])
            /\ Respond(call, escrowAccounts[escrowId], 1)
            /\ UNCHANGED <<escrowNonce, milestoneNonce, minEscrowAmount,
                           emergencyWithdrawalFee, totalEscrowed, escrowAccounts,
                           escrowReleases, pendingEscrows, escrowHistory>>

\* ------------------------------------------ shared by the two release paths
\* (- (get amount escrow) (get released-amount escrow))
Available(escrow) == escrow.amount - escrow.releasedAmount

\* mutant: the two branches of the status recompute swapped
NewStatusSwapped(newReleased, amount) ==
    IF newReleased = amount THEN STATUS_PARTIALLY_RELEASED ELSE STATUS_RELEASED

\* (if (is-eq new-released (get amount escrow)) STATUS-RELEASED STATUS-PARTIALLY-RELEASED)
NewStatus(newReleased, amount) ==
    IF newReleased = amount THEN STATUS_RELEASED ELSE STATUS_PARTIALLY_RELEASED

\* mutant: the record logs the whole remaining balance, not the amount released
ReleaseRecordOfBalance(amount, escrow, reason) ==
    [amount |-> escrow.amount - escrow.releasedAmount,
     recipient |-> escrow.beneficiary,
     reason |-> reason,
     releasedAt |-> now]

\* the tuple written to escrow-releases
ReleaseRecord(amount, escrow, reason) ==
    [amount |-> amount,
     recipient |-> escrow.beneficiary,
     reason |-> reason,
     releasedAt |-> now]

\* mutant: released-amount overwritten with the amount of this release
ApplyReleaseOverwrite(escrow, amount) ==
    LET newReleased == amount
    IN [escrow EXCEPT !.releasedAmount = newReleased,
                      !.status = NewStatus(newReleased, escrow.amount)]

\* (merge escrow { released-amount: new-released, status: ... })
ApplyRelease(escrow, amount) ==
    LET newReleased == escrow.releasedAmount + amount
    IN [escrow EXCEPT !.releasedAmount = newReleased,
                      !.status = NewStatus(newReleased, escrow.amount)]

\* ------------------------------------------------------------ release-funds
\* mutant: release-funds without its status check
ReleaseFundsCodeNoStatusCheck(sender, escrowId, amount) ==
    IF escrowId \notin DOMAIN escrowAccounts THEN ErrNotFound
    ELSE LET escrow == escrowAccounts[escrowId]
         IN IF Available(escrow) < 0 THEN RuntimeAbort
            ELSE IF ~(sender = escrow.depositor) THEN ErrUnauthorized
            ELSE IF ~(amount <= Available(escrow)) THEN ErrInsufficientFunds
            ELSE Ok

\* mutant: release-funds without its balance check
ReleaseFundsCodeNoBalanceCheck(sender, escrowId, amount) ==
    IF escrowId \notin DOMAIN escrowAccounts THEN ErrNotFound
    ELSE LET escrow == escrowAccounts[escrowId]
         IN IF Available(escrow) < 0 THEN RuntimeAbort
            ELSE IF ~(sender = escrow.depositor) THEN ErrUnauthorized
            ELSE IF ~(escrow.status = STATUS_ACTIVE) THEN ErrInvalidStatus
            ELSE Ok

ReleaseFundsCode(sender, escrowId, amount) ==
    IF escrowId \notin DOMAIN escrowAccounts THEN ErrNotFound
    ELSE LET escrow == escrowAccounts[escrowId]
         IN IF Available(escrow) < 0 THEN RuntimeAbort
            ELSE IF ~(sender = escrow.depositor) THEN ErrUnauthorized
            ELSE IF ~(escrow.status = STATUS_ACTIVE) THEN ErrInvalidStatus
            ELSE IF ~(amount <= Available(escrow)) THEN ErrInsufficientFunds
            ELSE Ok

\* mutant: release-funds without (var-set milestone-nonce release-id)
ReleaseFundsStaleNonce(sender, escrowId, amount, reason) ==
    LET code == ReleaseFundsCode(sender, escrowId, amount)
        releaseId == milestoneNonce + 1
        call == [Call("release-funds", sender) EXCEPT
                    !.escrowId = escrowId, !.amount = amount]
    IN IF code # Ok THEN Reject(call, code)
       ELSE LET escrow == escrowAccounts[escrowId]
            IN /\ escrowReleases' = MapSet(escrowReleases, <<escrowId, releaseId>>,
                      ReleaseRecord(amount, escrow, reason))
               /\ escrowAccounts' = MapSet(escrowAccounts, escrowId,
                      ApplyRelease(escrow, amount))
               /\ Respond(call, escrow, 1)
               /\ UNCHANGED <<escrowNonce, milestoneNonce, minEscrowAmount,
                              emergencyWithdrawalFee, totalEscrowed, escrowMilestones,
                              milestoneCount, pendingEscrows, escrowHistory>>

ReleaseFunds(sender, escrowId, amount, reason) ==
    LET code == ReleaseFundsCode(sender, escrowId, amount)
        releaseId == milestoneNonce + 1
        call == [Call("release-funds", sender) EXCEPT
                    !.escrowId = escrowId, !.amount = amount]
    IN IF code # Ok THEN Reject(call, code)
       ELSE LET escrow == escrowAccounts[escrowId]
            IN /\ escrowReleases' = MapSet(escrowReleases, <<escrowId, releaseId>>,
                      ReleaseRecord(amount, escrow, reason))
               /\ escrowAccounts' = MapSet(escrowAccounts, escrowId,
                      ApplyRelease(escrow, amount))
               /\ milestoneNonce' = releaseId
               /\ Respond(call, escrow, 1)
               /\ UNCHANGED <<escrowNonce, minEscrowAmount, emergencyWithdrawalFee,
                              totalEscrowed, escrowMilestones, milestoneCount,
                              pendingEscrows, escrowHistory>>

\* -------------------------------------------------- release-milestone-funds
\* mutant: release-milestone-funds without its milestone-status check
ReleaseMilestoneFundsCodeNoCompletedCheck(sender, escrowId, milestoneId) ==
    IF escrowId \notin DOMAIN escrowAccounts THEN ErrNotFound
    ELSE IF <<escrowId, milestoneId>> \notin DOMAIN escrowMilestones THEN ErrNotFound
    ELSE LET escrow == escrowAccounts[escrowId]
             milestone == escrowMilestones[<<escrowId, milestoneId>>]
         IN IF Available(escrow) < 0 THEN RuntimeAbort
            ELSE IF ~(sender = escrow.depositor) THEN ErrUnauthorized
            ELSE IF ~(milestone.amount <= Available(escrow)) THEN ErrInsufficientFunds
            ELSE Ok

\* mutant: release-milestone-funds without its balance check
ReleaseMilestoneFundsCodeNoBalanceCheck(sender, escrowId, milestoneId) ==
    IF escrowId \notin DOMAIN escrowAccounts THEN ErrNotFound
    ELSE IF <<escrowId, milestoneId>> \notin DOMAIN escrowMilestones THEN ErrNotFound
    ELSE LET escrow == escrowAccounts[escrowId]
             milestone == escrowMilestones[<<escrowId, milestoneId>>]
         IN IF Available(escrow) < 0 THEN RuntimeAbort
            ELSE IF ~(sender = escrow.depositor) THEN ErrUnauthorized
            ELSE IF ~(milestone.status = MILESTONE_COMPLETED) THEN ErrMilestoneIncomplete
            ELSE Ok

ReleaseMilestoneFundsCode(sender, escrowId, milestoneId) ==
    IF escrowId \notin DOMAIN escrowAccounts THEN ErrNotFound
    ELSE IF <<escrowId, milestoneId>> \notin DOMAIN escrowMilestones THEN ErrNotFound
    ELSE LET escrow == escrowAccounts[escrowId]
             milestone == escrowMilestones[<<escrowId, milestoneId>>]
         IN IF Available(escrow) < 0 THEN RuntimeAbort
            ELSE IF ~(sender = escrow.depositor) THEN ErrUnauthorized
            ELSE IF ~(milestone.status = MILESTONE_COMPLETED) THEN ErrMilestoneIncomplete
            ELSE IF ~(milestone.amount <= Available(escrow)) THEN ErrInsufficientFunds
            ELSE Ok

ReleaseMilestoneFunds(sender, escrowId, milestoneId) ==
    LET code == ReleaseMilestoneFundsCode(sender, escrowId, milestoneId)
        releaseId == milestoneNonce + 1
        call == [Call("release-milestone-funds", sender) EXCEPT
                    !.escrowId = escrowId, !.milestoneId = milestoneId]
    IN IF code # Ok THEN Reject(call, code)
       ELSE LET escrow == escrowAccounts[escrowId]
                milestone == escrowMilestones[<<escrowId, milestoneId>>]
            IN /\ escrowReleases' = MapSet(escrowReleases, <<escrowId, releaseId>>,
                      ReleaseRecord(milestone.amount, escrow, milestone.description))
               /\ escrowAccounts' = MapSet(escrowAccounts, escrowId,
                      ApplyRelease(escrow, milestone.amount))
               /\ milestoneNonce' = releaseId
               /\ Respond(call, escrow, 1)
               /\ UNCHANGED <<escrowNonce, minEscrowAmount, emergencyWithdrawalFee,
                              totalEscrowed, escrowMilestones, milestoneCount,
                              pendingEscrows, escrowHistory>>

\* ------------------------------------------------------------ refund-escrow
\* mutant: the refund is the original amount, not the unreleased balance
RefundAmountOriginal(escrow) == escrow.amount

\* (refund-amount (- (get amount escrow) (get released-amount escrow)))
RefundAmount(escrow) == escrow.amount - escrow.releasedAmount

\* mutant: refund-escrow without its expiry check
RefundEscrowCodeNoExpiryCheck(sender, escrowId) ==
    IF escrowId \notin DOMAIN escrowAccounts THEN ErrNotFound
    ELSE LET escrow == escrowAccounts[escrowId]
         IN IF escrow.amount - escrow.releasedAmount < 0 THEN RuntimeAbort
            ELSE IF ~(sender = escrow.depositor) THEN ErrUnauthorized
            ELSE IF ~(escrow.status = STATUS_ACTIVE
                      \/ escrow.status = STATUS_PARTIALLY_RELEASED) THEN ErrInvalidStatus
            ELSE Ok

RefundEscrowCode(sender, escrowId) ==
    IF escrowId \notin DOMAIN escrowAccounts THEN ErrNotFound
    ELSE LET escrow == escrowAccounts[escrowId]
         IN IF RefundAmount(escrow) < 0 THEN RuntimeAbort
            ELSE IF ~(sender = escrow.depositor) THEN ErrUnauthorized
            ELSE IF ~(now >= escrow.expiry) THEN ErrEscrowActive
            ELSE IF ~(escrow.status = STATUS_ACTIVE
                      \/ escrow.status = STATUS_PARTIALLY_RELEASED) THEN ErrInvalidStatus
            ELSE Ok

RefundEscrow(sender, escrowId) ==
    LET code == RefundEscrowCode(sender, escrowId)
        call == [Call("refund-escrow", sender) EXCEPT !.escrowId = escrowId]
    IN IF code # Ok THEN Reject(call, code)
       ELSE LET escrow == escrowAccounts[escrowId]
                refundAmount == RefundAmount(escrow)
                history == DefaultTo([totalDeposited |-> 0, totalReceived |-> 0,
                                      totalRefunded |-> 0, escrowsCompleted |-> 0],
                                     escrowHistory, escrow.depositor)
            IN /\ escrowAccounts' = MapSet(escrowAccounts, escrowId,
                      [escrow EXCEPT !.status = STATUS_REFUNDED])
               /\ escrowHistory' = MapSet(escrowHistory, escrow.depositor,
                      [history EXCEPT !.totalRefunded = history.totalRefunded + refundAmount])
               /\ Respond(call, escrow, refundAmount)
               /\ UNCHANGED <<escrowNonce, milestoneNonce, minEscrowAmount,
                              emergencyWithdrawalFee, totalEscrowed, escrowMilestones,
                              milestoneCount, escrowReleases, pendingEscrows>>

\* ----------------------------------------------------- emergency-withdrawal
\* (withdrawal-amount (- available fee))
WithdrawalAmount(escrow) == Available(escrow) - CalculateEmergencyFee(Available(escrow))

\* mutant: emergency-withdrawal without its depositor check
EmergencyWithdrawalCodeNoAuth(sender, escrowId) ==
    IF escrowId \notin DOMAIN escrowAccounts THEN ErrNotFound
    ELSE LET escrow == escrowAccounts[escrowId]
         IN IF Available(escrow) < 0 \/ WithdrawalAmount(escrow) < 0 THEN RuntimeAbort
            ELSE IF ~(escrow.status = STATUS_ACTIVE) THEN ErrInvalidStatus
            ELSE Ok

EmergencyWithdrawalCode(sender, escrowId) ==
    IF escrowId \notin DOMAIN escrowAccounts THEN ErrNotFound
    ELSE LET escrow == escrowAccounts[escrowId]
         IN IF Available(escrow) < 0 \/ WithdrawalAmount(escrow) < 0 THEN RuntimeAbort
            ELSE IF ~(sender = escrow.depositor) THEN ErrUnauthorized
            ELSE IF ~(escrow.status = STATUS_ACTIVE) THEN ErrInvalidStatus
            ELSE Ok

EmergencyWithdrawal(sender, escrowId) ==
    LET code == EmergencyWithdrawalCode(sender, escrowId)
        call == [Call("emergency-withdrawal", sender) EXCEPT !.escrowId = escrowId]
    IN IF code # Ok THEN Reject(call, code)
       ELSE LET escrow == escrowAccounts[escrowId]
            IN /\ escrowAccounts' = MapSet(escrowAccounts, escrowId,
                      [escrow EXCEPT !.status = STATUS_REFUNDED,
                                     !.releasedAmount = escrow.amount])
               /\ Respond(call, escrow, WithdrawalAmount(escrow))
               /\ UNCHANGED <<escrowNonce, milestoneNonce, minEscrowAmount,
                              emergencyWithdrawalFee, totalEscrowed, escrowMilestones,
                              milestoneCount, escrowReleases, pendingEscrows,
                              escrowHistory>>

\* ----------------------------------------------------- extend-escrow-period
ExtendEscrowPeriodCode(sender, escrowId) ==
    IF escrowId \notin DOMAIN escrowAccounts THEN ErrNotFound
    ELSE LET escrow == escrowAccounts[escrowId]
         IN IF ~(sender = escrow.depositor) THEN ErrUnauthorized
            ELSE IF ~(escrow.status = STATUS_ACTIVE) THEN ErrInvalidStatus
            ELSE Ok

ExtendEscrowPeriod(sender, escrowId, additionalTime) ==
    LET code == ExtendEscrowPeriodCode(sender, escrowId)
        call == [Call("extend-escrow-period", sender) EXCEPT
                    !.escrowId = escrowId, !.time = additionalTime]
    IN IF code # Ok THEN Reject(call, code)
       ELSE LET escrow == escrowAccounts[escrowId]
            IN /\ escrow.expiry + additionalTime <= MaxExpiry
               /\ escrowAccounts' = MapSet(escrowAccounts, escrowId,
                      [escrow EXCEPT !.expiry = escrow.expiry + additionalTime])
               /\ Respond(call, escrow, 1)
               /\ UNCHANGED <<escrowNonce, milestoneNonce, minEscrowAmount,
                              emergencyWithdrawalFee, totalEscrowed, escrowMilestones,
                              milestoneCount, escrowReleases, pendingEscrows,
                              escrowHistory>>

\* ---------------------------------------------------------- admin functions
SetMinEscrowAmount(sender, newMin) ==
    LET call == [Call("set-min-escrow-amount", sender) EXCEPT !.amount = newMin]
    IN IF ~(sender = ContractOwner) THEN Reject(call, ErrOwnerOnly)
       ELSE /\ minEscrowAmount' = newMin
            /\ Respond(call, NoEscrow, 1)
            /\ UNCHANGED <<escrowNonce, milestoneNonce, emergencyWithdrawalFee,
                           totalEscrowed, escrowAccounts, escrowMilestones,
                           milestoneCount, escrowReleases, pendingEscrows,
                           escrowHistory>>

\* mutant: set-emergency-fee without the cap
SetEmergencyFeeNoCap(sender, newFee) ==
    LET call == [Call("set-emergency-fee", sender) EXCEPT !.amount = newFee]
    IN IF ~(sender = ContractOwner) THEN Reject(call, ErrOwnerOnly)
       ELSE /\ emergencyWithdrawalFee' = newFee
            /\ Respond(call, NoEscrow, 1)
            /\ UNCHANGED <<escrowNonce, milestoneNonce, minEscrowAmount,
                           totalEscrowed, escrowAccounts, escrowMilestones,
                           milestoneCount, escrowReleases, pendingEscrows,
                           escrowHistory>>

SetEmergencyFee(sender, newFee) ==
    LET call == [Call("set-emergency-fee", sender) EXCEPT !.amount = newFee]
    IN IF ~(sender = ContractOwner) THEN Reject(call, ErrOwnerOnly)
       ELSE IF ~(newFee <= MaxEmergencyFee) THEN Reject(call, ErrInvalidAmount)
       ELSE /\ emergencyWithdrawalFee' = newFee
            /\ Respond(call, NoEscrow, 1)
            /\ UNCHANGED <<escrowNonce, milestoneNonce, minEscrowAmount,
                           totalEscrowed, escrowAccounts, escrowMilestones,
                           milestoneCount, escrowReleases, pendingEscrows,
                           escrowHistory>>

\* ------------------------------------------------------------------- clock
\* stacks-block-time advances between transactions.
Tick ==
    /\ now + TimeStep <= MaxTicks * TimeStep
    /\ now' = now + TimeStep
    /\ last' = Call("tick", NoPrincipal)
    /\ UNCHANGED ledger

\* -------------------------------------------------------------------- Next
\* The bounds of the exploration: a call the contract would accept is taken
\* only while its collection holds fewer records than the bound; a call it
\* rejects is always taken.
EscrowsBelow(bound, code) == code = Ok => escrowNonce < bound

MilestonesBelow(bound, escrowId, code) ==
    code = Ok => GetMilestoneCount(escrowId).total < bound

ReleasesBelow(bound, code) == code = Ok => milestoneNonce < bound

Next ==
    \/ \E s \in Creators, c \in CampaignIds, b \in Beneficiaries, a \in CreateAmounts,
          d \in Durations, m \in BOOLEAN :
          /\ EscrowsBelow(MaxEscrows, CreateEscrowCode(s, b, a, d))
          /\ CreateEscrow(s, c, b, a, d, m) /\ UNCHANGED <<now, dvars>>
    \/ \E s \in Principals, e \in EscrowIds, t \in Descriptions, a \in MilestoneAmounts,
          d \in Deadlines, h \in ConditionHashes :
          /\ MilestonesBelow(MaxMilestones, e, AddMilestoneCode(s, e))
          /\ AddMilestone(s, e, t, a, d, h) /\ UNCHANGED <<now, dvars>>
    \/ \E s \in Principals, e \in EscrowIds, m \in MilestoneIds :
          CompleteMilestone(s, e, m) /\ UNCHANGED <<now, dvars>>
    \/ \E s \in Principals, e \in EscrowIds, a \in ReleaseAmounts, r \in Reasons :
          /\ ReleasesBelow(MaxReleases, ReleaseFundsCode(s, e, a))
          /\ ReleaseFunds(s, e, a, r) /\ UNCHANGED <<now, dvars>>
    \/ \E s \in Principals, e \in EscrowIds, m \in MilestoneIds :
          /\ ReleasesBelow(MaxReleases, ReleaseMilestoneFundsCode(s, e, m))
          /\ ReleaseMilestoneFunds(s, e, m) /\ UNCHANGED <<now, dvars>>
    \/ \E s \in Principals, e \in EscrowIds :
          RefundEscrow(s, e) /\ UNCHANGED <<now, dvars>>
    \/ \E s \in Principals, e \in EscrowIds :
          EmergencyWithdrawal(s, e) /\ UNCHANGED <<now, dvars>>
    \/ \E s \in Principals, e \in EscrowIds, t \in AdditionalTimes :
          ExtendEscrowPeriod(s, e, t) /\ UNCHANGED <<now, dvars>>
    \/ \E s \in Principals, a \in MinAmounts :
          SetMinEscrowAmount(s, a) /\ UNCHANGED <<now, dvars>>
    \/ \E s \in Principals, f \in FeeChoices :
          SetEmergencyFee(s, f) /\ UNCHANGED <<now, dvars>>
    \/ Tick /\ UNCHANGED dvars

\* ==================================================== the dispute registry
\* `dlast` describes the most recent transaction of the registry: the
\* function called, its arguments, the response, and `pre`, the dispute
\* record the call found.
NoDispute ==
    [campaignId |-> 0, advertiser |-> NoPrincipal, publisher |-> NoPrincipal,
     disputeType |-> 0, amount |-> 0, status |-> 0, description |-> "",
     createdAt |-> 0, updatedAt |-> 0, resolutionDeadline |-> 0]

DisputeCall(op, sender) ==
    [op |-> op, sender |-> sender, disputeId |-> 0, party |-> NoPrincipal,
     arg |-> 0, flag |-> FALSE, code |-> Ok, ret |-> 0, pre |-> NoDispute]

\* mutant: a rejected call that keeps a write made before the error
DisputeRejectKeepsWrite(call, code) ==
    /\ dlast' = [DisputeCall(call.op, NoPrincipal) EXCEPT !.code = code]
    /\ totalDisputesResolved' = totalDisputesResolved + 1
    /\ UNCHANGED <<disputeNonce, appealWindow, autoResolveThreshold,
                   disputes, evidenceSubmissions, arbitratorAssignments, arbitratorVotes,
                   disputeOutcomes, evidenceCount, disputeHistory, arbitratorStats>>

\* (err code): the transaction is rolled back, the registry is untouched.  Of
\* a rejected call `dlast` keeps the function and the error code.
DisputeReject(call, code) ==
    /\ dlast' = [DisputeCall(call.op, NoPrincipal) EXCEPT !.code = code]
    /\ UNCHANGED dledger

\* (ok ret); (ok true) is recorded as ret = 1
DisputeRespond(call, pre, ret) ==
    dlast' = [call EXCEPT !.code = Ok, !.ret = ret, !.pre = pre]

\* ------------------------------------------------------ private functions
IsValidDisputeType(disputeType) ==
    \/ disputeType = TYPE_PAYMENT
    \/ disputeType = TYPE_FRAUD
    \/ disputeType = TYPE_QUALITY
    \/ disputeType = TYPE_CONTRACT_BREACH

IsValidOutcome(outcome) ==
    \/ outcome = OUTCOME_ADVERTISER_WINS
    \/ outcome = OUTCOME_PUBLISHER_WINS
    \/ outcome = OUTCOME_SPLIT
    \/ outcome = OUTCOME_DISMISSED

CalculateArbitrationFee(amount) == (amount * ArbitrationFeePercentage) \div 100

\* the dispute-history record of a party, with the defaults of the code
PartyHistory(history, party) ==
    DefaultTo([totalDisputes |-> 0, disputesWon |-> 0, disputesLost |-> 0,
               reputationScore |-> MaxReputation], history, party)

\* mutant: a loss always subtracts the step, without the floor
UpdatePartyReputationNoFloor(history, party, won) ==
    LET h == PartyHistory(history, party)
    IN MapSet(history, party,
          [totalDisputes |-> h.totalDisputes + 1,
           disputesWon |-> IF won THEN h.disputesWon + 1 ELSE h.disputesWon,
           disputesLost |-> IF won THEN h.disputesLost ELSE h.disputesLost + 1,
           reputationScore |->
               IF won
               THEN LET newScore == h.reputationScore + ReputationStep
                    IN IF newScore > MaxReputation THEN MaxReputation ELSE newScore
               ELSE h.reputationScore - ReputationStep])

\* update-party-reputation, as a function of the dispute-history map
UpdatePartyReputation(history, party, won) ==
    LET h == PartyHistory(history, party)
    IN MapSet(history, party,
          [totalDisputes |-> h.totalDisputes + 1,
           disputesWon |-> IF won THEN h.disputesWon + 1 ELSE h.disputesWon,
           disputesLost |-> IF won THEN h.disputesLost ELSE h.disputesLost + 1,
           reputationScore |->
               IF won
               THEN LET newScore == h.reputationScore + ReputationStep
                    IN IF newScore > MaxReputation THEN MaxReputation ELSE newScore
               ELSE IF h.reputationScore > ReputationStep
                    THEN h.reputationScore - ReputationStep
                    ELSE 0])

\* mutant: the publisher is credited a win whenever the advertiser does not win
RulingHistoryPublisherByDefault(history, advertiser, publisher, outcome) ==
    UpdatePartyReputation(
        UpdatePartyReputation(history, advertiser, outcome = OUTCOME_ADVERTISER_WINS),
        publisher, outcome # OUTCOME_ADVERTISER_WINS)

\* the two reputation updates of execute-ruling, advertiser first
RulingHistory(history, advertiser, publisher, outcome) ==
    UpdatePartyReputation(
        UpdatePartyReputation(history, advertiser, outcome = OUTCOME_ADVERTISER_WINS),
        publisher, outcome = OUTCOME_PUBLISHER_WINS)

\* ---------------------------------------------------- read-only functions
\* mutant: one evidence count for all disputes, that of the first
GetEvidenceCountShared(disputeId) ==
    DefaultTo([totalEvidence |-> 0], evidenceCount, 1)

GetEvidenceCount(disputeId) ==
    DefaultTo([totalEvidence |-> 0], evidenceCount, disputeId)

\* mutant: the read counts the last instant of the window in
CanAppealInclusive(disputeId) ==
    IF disputeId \in DOMAIN disputeOutcomes
    THEN /\ disputeOutcomes[disputeId].canAppeal
         /\ now - disputeOutcomes[disputeId].resolvedAt <= appealWindow
    ELSE FALSE

\* can-appeal
CanAppeal(disputeId) ==
    IF disputeId \in DOMAIN disputeOutcomes
    THEN /\ disputeOutcomes[disputeId].canAppeal
         /\ now - disputeOutcomes[disputeId].resolvedAt < appealWindow
    ELSE FALSE

\* ------------------------------------------------------------ construction
DisputeInit ==
    /\ disputeNonce = 0
    /\ appealWindow = InitialAppealWindow
    /\ autoResolveThreshold = InitialAutoResolveThreshold
    /\ totalDisputesResolved = 0
    /\ disputes = EmptyMap
    /\ evidenceSubmissions = EmptyMap
    /\ arbitratorAssignments = EmptyMap
    /\ arbitratorVotes = EmptyMap
    /\ disputeOutcomes = EmptyMap
    /\ evidenceCount = EmptyMap
    /\ disputeHistory = EmptyMap
    /\ arbitratorStats = EmptyMap
    /\ dlast = DisputeCall("deploy", ContractOwner)

\* ------------------------------------------------------------- open-dispute
\* mutant: open-dispute without the check that the parties differ
OpenDisputeCodeNoPartyCheck(sender, otherParty, disputeType, amount) ==
    IF ~IsValidDisputeType(disputeType) THEN DisputeErrInvalidStatus
    ELSE IF ~(amount >= MinDisputeAmount) THEN DisputeErrInsufficientAmount
    ELSE Ok

OpenDisputeCode(sender, otherParty, disputeType, amount) ==
    IF ~IsValidDisputeType(disputeType) THEN DisputeErrInvalidStatus
    ELSE IF ~(amount >= MinDisputeAmount) THEN DisputeErrInsufficientAmount
    ELSE IF ~(sender # otherParty) THEN DisputeErrInvalidParty
    ELSE Ok

OpenDispute(sender, campaignId, otherParty, disputeType, amount, description, isAdvertiser) ==
    LET disputeId == disputeNonce + 1
        advertiser == IF isAdvertiser THEN sender ELSE otherParty
        publisher == IF isAdvertiser THEN otherParty ELSE sender
        resolutionDeadline == now + ResolutionWindow
        code == OpenDisputeCode(sender, otherParty, disputeType, amount)
        call == [DisputeCall("open-dispute", sender) EXCEPT
                    !.party = otherParty, !.arg = amount, !.flag = isAdvertiser]
    IN IF code # Ok THEN DisputeReject(call, code)
       ELSE /\ disputes' = MapSet(disputes, disputeId,
                   [campaignId |-> campaignId,
                    advertiser |-> advertiser,
                    publisher |-> publisher,
                    disputeType |-> disputeType,
                    amount |-> amount,
                    status |-> STATUS_OPEN,
                    description |-> description,
                    createdAt |-> now,
                    updatedAt |-> now,
                    resolutionDeadline |-> resolutionDeadline])
            /\ evidenceCount' = MapSet(evidenceCount, disputeId, [totalEvidence |-> 0])
            /\ disputeNonce' = disputeId
            /\ DisputeRespond(call, NoDispute, disputeId)
            /\ UNCHANGED <<appealWindow, autoResolveThreshold, totalDisputesResolved,
                           evidenceSubmissions, arbitratorAssignments, arbitratorVotes,
                           disputeOutcomes, disputeHistory, arbitratorStats>>

\* ---------------------------------------------------------- submit-evidence
\* mutant: submit-evidence without the cap
SubmitEvidenceCodeNoLimit(sender, disputeId) ==
    IF disputeId \notin DOMAIN disputes THEN DisputeErrNotFound
    ELSE LET dispute == disputes[disputeId]
         IN IF ~(sender = dispute.advertiser \/ sender = dispute.publisher)
            THEN DisputeErrUnauthorized
            ELSE IF ~(dispute.status = STATUS_OPEN \/ dispute.status = STATUS_UNDER_REVIEW)
            THEN DisputeErrInvalidStatus
            ELSE Ok

SubmitEvidenceCode(sender, disputeId) ==
    IF disputeId \notin DOMAIN disputes THEN DisputeErrNotFound
    ELSE LET dispute == disputes[disputeId]
             countData == GetEvidenceCount(disputeId)
         IN IF ~(sender = dispute.advertiser \/ sender = dispute.publisher)
            THEN DisputeErrUnauthorized
            ELSE IF ~(countData.totalEvidence < MaxEvidencePerDispute)
            THEN DisputeErrEvidenceLimit
            ELSE IF ~(dispute.status = STATUS_OPEN \/ dispute.status = STATUS_UNDER_REVIEW)
            THEN DisputeErrInvalidStatus
            ELSE Ok

SubmitEvidence(sender, disputeId, evidenceType, evidenceHash, description) ==
    LET code == SubmitEvidenceCode(sender, disputeId)
        countData == GetEvidenceCount(disputeId)
        evidenceId == countData.totalEvidence + 1
        call == [DisputeCall("submit-evidence", sender) EXCEPT !.disputeId = disputeId]
    IN IF code # Ok THEN DisputeReject(call, code)
       ELSE /\ evidenceSubmissions' = MapSet(evidenceSubmissions, <<disputeId, evidenceId>>,
                   [submitter |-> sender,
                    evidenceType |-> evidenceType,
                    evidenceHash |-> evidenceHash,
                    description |-> description,
                    submittedAt |-> now])
            /\ evidenceCount' = MapSet(evidenceCount, disputeId, [totalEvidence |-> evidenceId])
            /\ DisputeRespond(call, disputes[disputeId], evidenceId)
            /\ UNCHANGED <<disputeNonce, appealWindow, autoResolveThreshold,
                           totalDisputesResolved, disputes, arbitratorAssignments,
                           arbitratorVotes, disputeOutcomes, disputeHistory,
                           arbitratorStats>>

\* -------------------------------------------------------- assign-arbitrator
\* mutant: assign-arbitrator without its status check
AssignArbitratorCodeNoStatusCheck(sender, disputeId) ==
    IF disputeId \notin DOMAIN disputes THEN DisputeErrNotFound
    ELSE IF ~(sender = ContractOwner) THEN DisputeErrOwnerOnly
    ELSE Ok

\* mutant: assign-arbitrator open to every caller
AssignArbitratorCodeNoOwnerCheck(sender, disputeId) ==
    IF disputeId \notin DOMAIN disputes THEN DisputeErrNotFound
    ELSE IF ~(disputes[disputeId].status = STATUS_OPEN) THEN DisputeErrInvalidStatus
    ELSE Ok

AssignArbitratorCode(sender, disputeId) ==
    IF disputeId \notin DOMAIN disputes THEN DisputeErrNotFound
    ELSE IF ~(sender = ContractOwner) THEN DisputeErrOwnerOnly
    ELSE IF ~(disputes[disputeId].status = STATUS_OPEN) THEN DisputeErrInvalidStatus
    ELSE Ok

AssignArbitrator(sender, disputeId, arbitrator) ==
    LET code == AssignArbitratorCode(sender, disputeId)
        decisionDeadline == now + ReviewWindow
        call == [DisputeCall("assign-arbitrator", sender) EXCEPT
                    !.disputeId = disputeId, !.party = arbitrator]
    IN IF code # Ok THEN DisputeReject(call, code)
       ELSE LET dispute == disputes[disputeId]
                arbStats == DefaultTo([totalCases |-> 0, casesResolved |-> 0,
                                       reputation |-> MaxReputation, active |-> TRUE],
                                      arbitratorStats, arbitrator)
            IN /\ arbitratorAssignments' = MapSet(arbitratorAssignments, disputeId,
                      [arbitrator |-> arbitrator,
                       assignedAt |-> now,
                       decisionDeadline |-> decisionDeadline])
               /\ disputes' = MapSet(disputes, disputeId,
                      [dispute EXCEPT !.status = STATUS_UNDER_REVIEW, !.updatedAt = now])
               /\ arbitratorStats' = MapSet(arbitratorStats, arbitrator,
                      [arbStats EXCEPT !.totalCases = arbStats.totalCases + 1])
               /\ DisputeRespond(call, dispute, 1)
               /\ UNCHANGED <<disputeNonce, appealWindow, autoResolveThreshold,
                              totalDisputesResolved, evidenceSubmissions, arbitratorVotes,
                              disputeOutcomes, evidenceCount, disputeHistory>>

\* ---------------------------------------------------------- vote-on-dispute
\* mutant: vote-on-dispute open to every caller
VoteOnDisputeCodeNoAuth(sender, disputeId, outcome) ==
    IF disputeId \notin DOMAIN disputes THEN DisputeErrNotFound
    ELSE IF disputeId \notin DOMAIN arbitratorAssignments THEN DisputeErrNotFound
    ELSE IF ~(disputes[disputeId].status = STATUS_UNDER_REVIEW) THEN DisputeErrInvalidStatus
    ELSE IF ~IsValidOutcome(outcome) THEN DisputeErrInvalidStatus
    ELSE Ok

\* Of a successful vote `dlast` keeps, as flag, whether it replaced an
\* earlier vote of the caller.
VoteOnDisputeCode(sender, disputeId, outcome) ==
    IF disputeId \notin DOMAIN disputes THEN DisputeErrNotFound
    ELSE IF disputeId \notin DOMAIN arbitratorAssignments THEN DisputeErrNotFound
    ELSE IF ~(sender = arbitratorAssignments[disputeId].arbitrator)
    THEN DisputeErrUnauthorized
    ELSE IF ~(disputes[disputeId].status = STATUS_UNDER_REVIEW) THEN DisputeErrInvalidStatus
    ELSE IF ~IsValidOutcome(outcome) THEN DisputeErrInvalidStatus
    ELSE Ok

VoteOnDispute(sender, disputeId, outcome, reasoning) ==
    LET code == VoteOnDisputeCode(sender, disputeId, outcome)
        call == [DisputeCall("vote-on-dispute", sender) EXCEPT
                    !.disputeId = disputeId, !.arg = outcome,
                    !.flag = <<disputeId, sender>> \in DOMAIN arbitratorVotes]
    IN IF code # Ok THEN DisputeReject(call, code)
       ELSE /\ arbitratorVotes' = MapSet(arbitratorVotes, <<disputeId, sender>>,
                   [outcome |-> outcome, reasoning |-> reasoning, votedAt |-> now])
            /\ DisputeRespond(call, disputes[disputeId], 1)
            /\ UNCHANGED <<disputeNonce, appealWindow, autoResolveThreshold,
                           totalDisputesResolved, disputes, evidenceSubmissions,
                           arbitratorAssignments, disputeOutcomes, evidenceCount,
                           disputeHistory, arbitratorStats>>

\* ----------------------------------------------------------- execute-ruling
\* mutant: the split rounds up
SplitAmountRoundUp(amount) == (amount + 1) \div 2

\* (/ (get amount dispute) u2)
SplitAmount(amount) == amount \div 2

\* mutant: the two winners are exchanged
RulingWinnerSwapped(dispute, outcome) ==
    IF outcome = OUTCOME_ADVERTISER_WINS THEN dispute.publisher
    ELSE IF outcome = OUTCOME_PUBLISHER_WINS THEN dispute.advertiser
    ELSE ContractOwner

\* the winner execute-ruling records
RulingWinner(dispute, outcome) ==
    IF outcome = OUTCOME_ADVERTISER_WINS THEN dispute.advertiser
    ELSE IF outcome = OUTCOME_PUBLISHER_WINS THEN dispute.publisher
    ELSE ContractOwner

\* the amount execute-ruling records as transferred
TransferAmount(dispute, outcome) ==
    IF outcome = OUTCOME_SPLIT THEN SplitAmount(dispute.amount) ELSE dispute.amount

\* The unwraps of the let come first: the dispute, the assignment and the
\* vote of the assigned arbitrator; then the two asserts; the unwrap of the
\* arbitrator's stats comes after the writes and rolls them back.
ExecuteRulingCode(sender, disputeId) ==
    IF disputeId \notin DOMAIN disputes THEN DisputeErrNotFound
    ELSE IF disputeId \notin DOMAIN arbitratorAssignments THEN DisputeErrNotFound
    ELSE IF <<disputeId, arbitratorAssignments[disputeId].arbitrator>>
                \notin DOMAIN arbitratorVotes
    THEN DisputeErrNotFound
    ELSE IF ~(sender = ContractOwner) THEN DisputeErrOwnerOnly
    ELSE IF ~(disputes[disputeId].status = STATUS_UNDER_REVIEW) THEN DisputeErrInvalidStatus
    ELSE IF arbitratorAssignments[disputeId].arbitrator \notin DOMAIN arbitratorStats
    THEN DisputeErrNotFound
    ELSE Ok

ExecuteRuling(sender, disputeId) ==
    LET code == ExecuteRulingCode(sender, disputeId)
        call == [DisputeCall("execute-ruling", sender) EXCEPT !.disputeId = disputeId]
    IN IF code # Ok THEN DisputeReject(call, code)
       ELSE LET dispute == disputes[disputeId]
                arbitrator == arbitratorAssignments[disputeId].arbitrator
                vote == arbitratorVotes[<<disputeId, arbitrator>>]
                outcome == vote.outcome
                arbStats == arbitratorStats[arbitrator]
            IN /\ disputes' = MapSet(disputes, disputeId,
                      [dispute EXCEPT !.status = STATUS_RESOLVED, !.updatedAt = now])
               /\ disputeOutcomes' = MapSet(disputeOutcomes, disputeId,
                      [outcome |-> outcome,
                       winner |-> RulingWinner(dispute, outcome),
                       amountTransferred |-> TransferAmount(dispute, outcome),
                       reasoning |-> vote.reasoning,
                       resolvedAt |-> now,
                       canAppeal |-> dispute.amount >= autoResolveThreshold * AppealFactor])
               /\ disputeHistory' = RulingHistory(disputeHistory, dispute.advertiser,
                                                  dispute.publisher, outcome)
               /\ arbitratorStats' = MapSet(arbitratorStats, arbitrator,
                      [arbStats EXCEPT !.casesResolved = arbStats.casesResolved + 1])
               /\ totalDisputesResolved' = totalDisputesResolved + 1
               /\ DisputeRespond([call EXCEPT !.arg = outcome], dispute, 1)
               /\ UNCHANGED <<disputeNonce, appealWindow, autoResolveThreshold,
                              evidenceSubmissions, arbitratorAssignments, arbitratorVotes,
                              evidenceCount>>

\* ---------------------------------------------------------- appeal-decision
\* mutant: the appeal window includes its last instant
AppealDecisionCodeInclusive(sender, disputeId) ==
    IF disputeId \notin DOMAIN disputes THEN DisputeErrNotFound
    ELSE IF disputeId \notin DOMAIN disputeOutcomes THEN DisputeErrNotFound
    ELSE LET dispute == disputes[disputeId]
             outcome == disputeOutcomes[disputeId]
         IN IF ~(sender = dispute.advertiser \/ sender = dispute.publisher)
            THEN DisputeErrUnauthorized
            ELSE IF ~outcome.canAppeal THEN DisputeErrInvalidStatus
            ELSE IF now - outcome.resolvedAt < 0 THEN RuntimeAbort
            ELSE IF ~(now - outcome.resolvedAt <= appealWindow) THEN DisputeErrAppealExpired
            ELSE Ok

AppealDecisionCode(sender, disputeId) ==
    IF disputeId \notin DOMAIN disputes THEN DisputeErrNotFound
    ELSE IF disputeId \notin DOMAIN disputeOutcomes THEN DisputeErrNotFound
    ELSE LET dispute == disputes[disputeId]
             outcome == disputeOutcomes[disputeId]
         IN IF ~(sender = dispute.advertiser \/ sender = dispute.publisher)
            THEN DisputeErrUnauthorized
            ELSE IF ~outcome.canAppeal THEN DisputeErrInvalidStatus
            ELSE IF now - outcome.resolvedAt < 0 THEN RuntimeAbort
            ELSE IF ~(now - outcome.resolvedAt < appealWindow) THEN DisputeErrAppealExpired
            ELSE Ok

AppealDecision(sender, disputeId, reason) ==
    LET code == AppealDecisionCode(sender, disputeId)
        call == [DisputeCall("appeal-decision", sender) EXCEPT !.disputeId = disputeId]
    IN IF code # Ok THEN DisputeReject(call, code)
       ELSE LET dispute == disputes[disputeId]
            IN /\ disputes' = MapSet(disputes, disputeId,
                      [dispute EXCEPT !.status = STATUS_APPEALED, !.updatedAt = now])
               /\ DisputeRespond(call, dispute, 1)
               /\ UNCHANGED <<disputeNonce, appealWindow, autoResolveThreshold,
                              totalDisputesResolved, evidenceSubmissions,
                              arbitratorAssignments, arbitratorVotes, disputeOutcomes,
                              evidenceCount, disputeHistory, arbitratorStats>>

\* ----------------------------------------------------- auto-resolve-dispute
\* mutant: auto-resolve-dispute for claims of every size
AutoResolveDisputeCodeAnyAmount(disputeId) ==
    IF disputeId \notin DOMAIN disputes THEN DisputeErrNotFound
    ELSE IF ~(disputes[disputeId].status = STATUS_OPEN) THEN DisputeErrInvalidStatus
    ELSE Ok

AutoResolveDisputeCode(disputeId) ==
    IF disputeId \notin DOMAIN disputes THEN DisputeErrNotFound
    ELSE LET dispute == disputes[disputeId]
         IN IF ~(dispute.amount <= autoResolveThreshold) THEN DisputeErrInsufficientAmount
            ELSE IF ~(dispute.status = STATUS_OPEN) THEN DisputeErrInvalidStatus
            ELSE Ok

\* mutant: auto-resolve-dispute without the update of total-disputes-resolved
AutoResolveDisputeUncounted(sender, disputeId) ==
    LET code == AutoResolveDisputeCode(disputeId)
        call == [DisputeCall("auto-resolve-dispute", sender) EXCEPT !.disputeId = disputeId]
    IN IF code # Ok THEN DisputeReject(call, code)
       ELSE LET dispute == disputes[disputeId]
            IN /\ disputes' = MapSet(disputes, disputeId,
                      [dispute EXCEPT !.status = STATUS_RESOLVED, !.updatedAt = now])
               /\ disputeOutcomes' = MapSet(disputeOutcomes, disputeId,
                      [outcome |-> OUTCOME_SPLIT,
                       winner |-> ContractOwner,
                       amountTransferred |-> SplitAmount(dispute.amount),
                       reasoning |-> "Auto-resolved: small claim split 50/50",
                       resolvedAt |-> now,
                       canAppeal |-> FALSE])
               /\ DisputeRespond(call, dispute, 1)
               /\ UNCHANGED <<disputeNonce, appealWindow, autoResolveThreshold,
                              totalDisputesResolved,
                              evidenceSubmissions, arbitratorAssignments, arbitratorVotes,
                              evidenceCount, disputeHistory, arbitratorStats>>

AutoResolveDispute(sender, disputeId) ==
    LET code == AutoResolveDisputeCode(disputeId)
        call == [DisputeCall("auto-resolve-dispute", sender) EXCEPT !.disputeId = disputeId]
    IN IF code # Ok THEN DisputeReject(call, code)
       ELSE LET dispute == disputes[disputeId]
            IN /\ disputes' = MapSet(disputes, disputeId,
                      [dispute EXCEPT !.status = STATUS_RESOLVED, !.updatedAt = now])
               /\ disputeOutcomes' = MapSet(disputeOutcomes, disputeId,
                      [outcome |-> OUTCOME_SPLIT,
                       winner |-> ContractOwner,
                       amountTransferred |-> SplitAmount(dispute.amount),
                       reasoning |-> "Auto-resolved: small claim split 50/50",
                       resolvedAt |-> now,
                       canAppeal |-> FALSE])
               /\ totalDisputesResolved' = totalDisputesResolved + 1
               /\ DisputeRespond(call, dispute, 1)
               /\ UNCHANGED <<disputeNonce, appealWindow, autoResolveThreshold,
                              evidenceSubmissions, arbitratorAssignments, arbitratorVotes,
                              evidenceCount, disputeHistory, arbitratorStats>>

\* ------------------------------------------------------------ close-dispute
\* mutant: close-dispute accepts an Appealed dispute too
CloseDisputeCodeAfterAppeal(disputeId) ==
    IF disputeId \notin DOMAIN disputes THEN DisputeErrNotFound
    ELSE IF ~(disputes[disputeId].status \in {STATUS_RESOLVED, STATUS_APPEALED})
    THEN DisputeErrInvalidStatus
    ELSE Ok

CloseDisputeCode(disputeId) ==
    IF disputeId \notin DOMAIN disputes THEN DisputeErrNotFound
    ELSE IF ~(disputes[disputeId].status = STATUS_RESOLVED) THEN DisputeErrInvalidStatus
    ELSE Ok

CloseDispute(sender, disputeId) ==
    LET code == CloseDisputeCode(disputeId)
        call == [DisputeCall("close-dispute", sender) EXCEPT !.disputeId = disputeId]
    IN IF code # Ok THEN DisputeReject(call, code)
       ELSE LET dispute == disputes[disputeId]
            IN /\ disputes' = MapSet(disputes, disputeId,
                      [dispute EXCEPT !.status = STATUS_CLOSED, !.updatedAt = now])
               /\ DisputeRespond(call, dispute, 1)
               /\ UNCHANGED <<disputeNonce, appealWindow, autoResolveThreshold,
                              totalDisputesResolved, evidenceSubmissions,
                              arbitratorAssignments, arbitratorVotes, disputeOutcomes,
                              evidenceCount, disputeHistory, arbitratorStats>>

\* ---------------------------------------------------------- admin functions
RegisterArbitrator(sender, arbitrator) ==
    LET call == [DisputeCall("register-arbitrator", sender) EXCEPT !.party = arbitrator]
    IN IF ~(sender = ContractOwner) THEN DisputeReject(call, DisputeErrOwnerOnly)
       ELSE /\ arbitratorStats' = MapSet(arbitratorStats, arbitrator,
                   [totalCases |-> 0, casesResolved |-> 0,
                    reputation |-> MaxReputation, active |-> TRUE])
            /\ DisputeRespond(call, NoDispute, 1)
            /\ UNCHANGED <<disputeNonce, appealWindow, autoResolveThreshold,
                           totalDisputesResolved, disputes, evidenceSubmissions,
                           arbitratorAssignments, arbitratorVotes, disputeOutcomes,
                           evidenceCount, disputeHistory>>

DeactivateArbitrator(sender, arbitrator) ==
    LET call == [DisputeCall("deactivate-arbitrator", sender) EXCEPT !.party = arbitrator]
    IN IF arbitrator \notin DOMAIN arbitratorStats THEN DisputeReject(call, DisputeErrNotFound)
       ELSE IF ~(sender = ContractOwner) THEN DisputeReject(call, DisputeErrOwnerOnly)
       ELSE /\ arbitratorStats' = MapSet(arbitratorStats, arbitrator,
                   [arbitratorStats[arbitrator] EXCEPT !.active = FALSE])
            /\ DisputeRespond(call, NoDispute, 1)
            /\ UNCHANGED <<disputeNonce, appealWindow, autoResolveThreshold,
                           totalDisputesResolved, disputes, evidenceSubmissions,
                           arbitratorAssignments, arbitratorVotes, disputeOutcomes,
                           evidenceCount, disputeHistory>>

SetAutoResolveThreshold(sender, newThreshold) ==
    LET call == [DisputeCall("set-auto-resolve-threshold", sender) EXCEPT !.arg = newThreshold]
    IN IF ~(sender = ContractOwner) THEN DisputeReject(call, DisputeErrOwnerOnly)
       ELSE /\ autoResolveThreshold' = newThreshold
            /\ DisputeRespond(call, NoDispute, 1)
            /\ UNCHANGED <<disputeNonce, appealWindow, totalDisputesResolved, disputes,
                           evidenceSubmissions, arbitratorAssignments, arbitratorVotes,
                           disputeOutcomes, evidenceCount, disputeHistory,
                           arbitratorStats>>

SetAppealWindow(sender, newWindow) ==
    LET call == [DisputeCall("set-appeal-window", sender) EXCEPT !.arg = newWindow]
    IN IF ~(sender = ContractOwner) THEN DisputeReject(call, DisputeErrOwnerOnly)
       ELSE /\ appealWindow' = newWindow
            /\ DisputeRespond(call, NoDispute, 1)
            /\ UNCHANGED <<disputeNonce, autoResolveThreshold, totalDisputesResolved,
                           disputes, evidenceSubmissions, arbitratorAssignments,
                           arbitratorVotes, disputeOutcomes, evidenceCount,
                           disputeHistory, arbitratorStats>>

\* ------------------------------------------------------------------- clock
\* stacks-block-time advances between transactions of the registry.
DisputeTickUpTo(bound) ==
    /\ now + TimeStep <= bound * TimeStep
    /\ now' = now + TimeStep
    /\ dlast' = DisputeCall("tick", NoPrincipal)
    /\ UNCHANGED <<dledger, ledger, last>>

DisputeTick == DisputeTickUpTo(MaxTicks)

\* -------------------------------------------------------------------- Next
\* the bounds of the exploration, as for the escrow ledger
DisputesBelow(bound, code) == code = Ok => disputeNonce < bound

EvidenceBelow(bound, disputeId, code) ==
    code = Ok => GetEvidenceCount(disputeId).totalEvidence < bound

\* the dispute lifecycle and its configuration
DisputeNext ==
    \/ \E s \in Openers, c \in CampaignIds, o \in OtherParties, t \in DisputeTypes,
          a \in DisputeAmounts, x \in Texts, f \in BOOLEAN :
          /\ DisputesBelow(MaxDisputes, OpenDisputeCode(s, o, t, a))
          /\ OpenDispute(s, c, o, t, a, x, f) /\ UNCHANGED vars
    \/ \E s \in Submitters, d \in DisputeIds, t \in EvidenceTypes,
          h \in EvidenceHashes, x \in Texts :
          /\ EvidenceBelow(MaxEvidence, d, SubmitEvidenceCode(s, d))
          /\ SubmitEvidence(s, d, t, h, x) /\ UNCHANGED vars
    \/ \E s \in DisputePrincipals, d \in DisputeIds, a \in Arbitrators :
          AssignArbitrator(s, d, a) /\ UNCHANGED vars
    \/ \E s \in DisputePrincipals, d \in DisputeIds, o \in VoteOutcomes, x \in Texts :
          VoteOnDispute(s, d, o, x) /\ UNCHANGED vars
    \/ \E s \in DisputePrincipals, d \in DisputeIds :
          ExecuteRuling(s, d) /\ UNCHANGED vars
    \/ \E s \in DisputePrincipals, d \in DisputeIds, x \in Texts :
          AppealDecision(s, d, x) /\ UNCHANGED vars
    \/ \E s \in DisputePrincipals, d \in DisputeIds :
          AutoResolveDispute(s, d) /\ UNCHANGED vars
    \/ \E s \in DisputePrincipals, d \in DisputeIds :
          CloseDispute(s, d) /\ UNCHANGED vars
    \/ \E s \in DisputePrincipals, t \in Thresholds :
          SetAutoResolveThreshold(s, t) /\ UNCHANGED vars
    \/ \E s \in DisputePrincipals, w \in Windows :
          SetAppealWindow(s, w) /\ UNCHANGED vars
    \/ DisputeTick

\* the arbitrator directory: the two functions that write arbitrator-stats
\* outside the lifecycle of a dispute
DirectoryNext ==
    \/ \E s \in DisputePrincipals, a \in Arbitrators :
          RegisterArbitrator(s, a) /\ UNCHANGED vars
    \/ \E s \in DisputePrincipals, a \in Arbitrators :
          DeactivateArbitrator(s, a) /\ UNCHANGED vars

\* ---------------------------------------- one large dispute, a longer run
\* A payment dispute of 2,000,000 that D opens as advertiser, against P or
\* against the contract owner, followed past its resolution deadline and
\* past both appeal windows.  The owner may raise the auto-resolve threshold
\* above the amount, which makes the dispute a small claim.  submit-evidence,
\* which writes the evidence collections only, is left to the other runs.
Respondents == {"P", "O"}
LargeAmounts == {2000000}
HighThresholds == {2500000}

LongRunNext ==
    \/ \E s \in Openers, c \in CampaignIds, o \in Respondents, a \in LargeAmounts,
          x \in Texts :
          /\ DisputesBelow(MaxDisputes, OpenDisputeCode(s, o, TYPE_PAYMENT, a))
          /\ OpenDispute(s, c, o, TYPE_PAYMENT, a, x, TRUE) /\ UNCHANGED vars
    \/ \E s \in DisputePrincipals, d \in DisputeIds, a \in Arbitrators :
          AssignArbitrator(s, d, a) /\ UNCHANGED vars
    \/ \E s \in DisputePrincipals, d \in DisputeIds, o \in VoteOutcomes, x \in Texts :
          VoteOnDispute(s, d, o, x) /\ UNCHANGED vars
    \/ \E s \in DisputePrincipals, d \in DisputeIds :
          ExecuteRuling(s, d) /\ UNCHANGED vars
    \/ \E s \in DisputePrincipals, d \in DisputeIds, x \in Texts :
          AppealDecision(s, d, x) /\ UNCHANGED vars
    \/ \E s \in DisputePrincipals, d \in DisputeIds :
          AutoResolveDispute(s, d) /\ UNCHANGED vars
    \/ \E s \in DisputePrincipals, d \in DisputeIds :
          CloseDispute(s, d) /\ UNCHANGED vars
    \/ \E s \in DisputePrincipals, t \in HighThresholds :
          SetAutoResolveThreshold(s, t) /\ UNCHANGED vars
    \/ \E s \in DisputePrincipals, w \in Windows :
          SetAppealWindow(s, w) /\ UNCHANGED vars
    \/ DisputeTickUpTo(MaxLateTicks)

\* ---------------------------------------------- the evidence of one dispute
\* One dispute between D and P taken through arbitration at one instant,
\* with evidence from each party in every order, up to the cap of the
\* contract, and attempts by the owner, who is no party.
EvidenceCallers == {"D", "P", "O"}

EvidenceNext ==
    \/ \E c \in CampaignIds, a \in LargeAmounts, x \in Texts :
          /\ DisputesBelow(MaxDisputes, OpenDisputeCode("D", "P", TYPE_PAYMENT, a))
          /\ OpenDispute("D", c, "P", TYPE_PAYMENT, a, x, TRUE) /\ UNCHANGED vars
    \/ \E s \in EvidenceCallers, d \in DisputeIds, t \in EvidenceTypes,
          h \in EvidenceHashes, x \in Texts :
          SubmitEvidence(s, d, t, h, x) /\ UNCHANGED vars
    \/ \E d \in DisputeIds, a \in Arbitrators :
          AssignArbitrator(ContractOwner, d, a) /\ UNCHANGED vars
    \/ \E d \in DisputeIds, a \in Arbitrators, x \in Texts :
          VoteOnDispute(a, d, OUTCOME_PUBLISHER_WINS, x) /\ UNCHANGED vars
    \/ \E d \in DisputeIds :
          ExecuteRuling(ContractOwner, d) /\ UNCHANGED vars

\* ------------------------------------------- the allocation of identifiers
\* The four functions that allocate an identifier, of both contracts, in
\* every interleaving: escrows and their milestones, disputes and their
\* evidence, up to MaxAllocations of each, with the calls the contracts
\* reject in between.
AllocationIds == 1..MaxAllocations
AllocationMilestoneAmounts == {600000}

AllocationNext ==
    \/ \E s \in Creators, c \in CampaignIds, b \in Beneficiaries, a \in CreateAmounts,
          d \in Durations, m \in BOOLEAN :
          /\ EscrowsBelow(MaxAllocations, CreateEscrowCode(s, b, a, d))
          /\ CreateEscrow(s, c, b, a, d, m) /\ UNCHANGED <<now, dvars>>
    \/ \E s \in Creators, e \in AllocationIds, t \in Descriptions,
          a \in AllocationMilestoneAmounts, d \in Deadlines, h \in ConditionHashes :
          /\ MilestonesBelow(MaxAllocations, e, AddMilestoneCode(s, e))
          /\ AddMilestone(s, e, t, a, d, h) /\ UNCHANGED <<now, dvars>>
    \/ \E s \in Openers, c \in CampaignIds, o \in OtherParties, a \in LargeAmounts,
          x \in Texts :
          /\ DisputesBelow(MaxAllocations, OpenDisputeCode(s, o, TYPE_PAYMENT, a))
          /\ OpenDispute(s, c, o, TYPE_PAYMENT, a, x, TRUE) /\ UNCHANGED vars
    \/ \E s \in EvidenceCallers, d \in AllocationIds, t \in EvidenceTypes,
          h \in EvidenceHashes, x \in Texts :
          /\ EvidenceBelow(MaxAllocations, d, SubmitEvidenceCode(s, d))
          /\ SubmitEvidence(s, d, t, h, x) /\ UNCHANGED vars

\* ------------------------------------------------- two escrows, interleaved
\* Two escrows of 1,000,000 from D to B, each with at most one milestone of
\* 400,000, and up to MaxAuditReleases releases of 400,000 between them, by
\* amount or by milestone, in any order, with refunds and withdrawals in
\* between.
AuditAmounts == {1000000}
AuditDurations == {1000}
AuditReleaseAmounts == {400000}
Depositors == {"D"}

AuditNext ==
    \/ \E s \in Creators, c \in CampaignIds, b \in Beneficiaries, a \in AuditAmounts,
          d \in AuditDurations, m \in BOOLEAN :
          /\ EscrowsBelow(MaxAllocations, CreateEscrowCode(s, b, a, d))
          /\ CreateEscrow(s, c, b, a, d, m) /\ UNCHANGED <<now, dvars>>
    \/ \E s \in Depositors, e \in AllocationIds, t \in Descriptions,
          a \in AuditReleaseAmounts, d \in Deadlines, h \in ConditionHashes :
          /\ MilestonesBelow(MaxMilestones, e, AddMilestoneCode(s, e))
          /\ AddMilestone(s, e, t, a, d, h) /\ UNCHANGED <<now, dvars>>
    \/ \E s \in Beneficiaries, e \in AllocationIds, m \in MilestoneIds :
          CompleteMilestone(s, e, m) /\ UNCHANGED <<now, dvars>>
    \/ \E s \in Depositors, e \in AllocationIds, a \in AuditReleaseAmounts, r \in Reasons :
          /\ ReleasesBelow(MaxAuditReleases, ReleaseFundsCode(s, e, a))
          /\ ReleaseFunds(s, e, a, r) /\ UNCHANGED <<now, dvars>>
    \/ \E s \in Depositors, e \in AllocationIds, m \in MilestoneIds :
          /\ ReleasesBelow(MaxAuditReleases, ReleaseMilestoneFundsCode(s, e, m))
          /\ ReleaseMilestoneFunds(s, e, m) /\ UNCHANGED <<now, dvars>>
    \/ \E s \in Depositors, e \in AllocationIds :
          RefundEscrow(s, e) /\ UNCHANGED <<now, dvars>>
    \/ \E s \in Depositors, e \in AllocationIds :
          EmergencyWithdrawal(s, e) /\ UNCHANGED <<now, dvars>>
    \/ Tick /\ UNCHANGED dvars

\* ------------------------------------------------- two disputes, one roster
\* Two disputes of 1,000,001 between D and P, each called only by those the
\* contract lets through: the owner assigns, the arbitrator votes, the owner
\* executes, D auto-resolves, appeals and closes.  The owner may raise the
\* auto-resolve threshold, which makes both disputes small claims, and may
\* register and deactivate the arbitrator at any point.
CaseAmounts == {1000001}
CaseOutcomes == {OUTCOME_ADVERTISER_WINS}
Owners == {ContractOwner}
Publishers == {"P"}

CaseloadNext ==
    \/ \E s \in Openers, c \in CampaignIds, o \in Publishers, a \in CaseAmounts,
          x \in Texts :
          /\ DisputesBelow(MaxAllocations, OpenDisputeCode(s, o, TYPE_PAYMENT, a))
          /\ OpenDispute(s, c, o, TYPE_PAYMENT, a, x, TRUE) /\ UNCHANGED vars
    \/ \E s \in Owners, d \in AllocationIds, a \in Arbitrators :
          AssignArbitrator(s, d, a) /\ UNCHANGED vars
    \/ \E s \in Arbitrators, d \in AllocationIds, o \in CaseOutcomes, x \in Texts :
          VoteOnDispute(s, d, o, x) /\ UNCHANGED vars
    \/ \E s \in Owners, d \in AllocationIds :
          ExecuteRuling(s, d) /\ UNCHANGED vars
    \/ \E s \in Openers, d \in AllocationIds, x \in Texts :
          AppealDecision(s, d, x) /\ UNCHANGED vars
    \/ \E s \in Openers, d \in AllocationIds :
          AutoResolveDispute(s, d) /\ UNCHANGED vars
    \/ \E s \in Openers, d \in AllocationIds :
          CloseDispute(s, d) /\ UNCHANGED vars
    \/ \E s \in Owners, t \in Thresholds :
          SetAutoResolveThreshold(s, t) /\ UNCHANGED vars
    \/ \E s \in Owners, a \in Arbitrators :
          RegisterArbitrator(s, a) /\ UNCHANGED vars
    \/ \E s \in Owners, a \in Arbitrators :
          DeactivateArbitrator(s, a) /\ UNCHANGED vars

\* -------------------------------------------- the reputation ledger alone
\* The effect of one more ruling between advertiser D and publisher P on
\* dispute-history, whatever dispute it closes: the two calls of
\* update-party-reputation in execute-ruling, for a vote of the given outcome.
RulingOnReputation(outcome) ==
    /\ IsValidOutcome(outcome)
    /\ PartyHistory(disputeHistory, "D").totalDisputes < MaxRulings
    /\ disputeHistory' = RulingHistory(disputeHistory, "D", "P", outcome)
    /\ dlast' = [DisputeCall("update-party-reputation", ContractOwner) EXCEPT !.arg = outcome]
    /\ UNCHANGED <<disputeNonce, appealWindow, autoResolveThreshold, totalDisputesResolved,
                   disputes, evidenceSubmissions, arbitratorAssignments, arbitratorVotes,
                   disputeOutcomes, evidenceCount, arbitratorStats>>

ReputationNext ==
    \E o \in VoteOutcomes : RulingOnReputation(o) /\ UNCHANGED vars

\* ------------------------------------------- one dispute after many rulings
\* A dispute of 1,000,001 between D and P, taken through either resolution
\* path by the callers the contract lets through, in a registry where D has
\* lost any number of earlier rulings to P: those are reduced to their effect
\* on dispute-history, as in the reputation ledger above.
PriorOutcomes == {OUTCOME_PUBLISHER_WINS}

HistoryNext ==
    \/ \E o \in PriorOutcomes :
          /\ disputeNonce = 0
          /\ RulingOnReputation(o) /\ UNCHANGED vars
    \/ \E s \in Openers, c \in CampaignIds, o \in Publishers, a \in CaseAmounts,
          x \in Texts :
          /\ DisputesBelow(MaxDisputes, OpenDisputeCode(s, o, TYPE_PAYMENT, a))
          /\ OpenDispute(s, c, o, TYPE_PAYMENT, a, x, TRUE) /\ UNCHANGED vars
    \/ \E s \in Owners, d \in DisputeIds, a \in Arbitrators :
          AssignArbitrator(s, d, a) /\ UNCHANGED vars
    \/ \E s \in Arbitrators, d \in DisputeIds, o \in VoteOutcomes, x \in Texts :
          VoteOnDispute(s, d, o, x) /\ UNCHANGED vars
    \/ \E s \in Owners, d \in DisputeIds :
          ExecuteRuling(s, d) /\ UNCHANGED vars
    \/ \E s \in Openers, d \in DisputeIds :
          AutoResolveDispute(s, d) /\ UNCHANGED vars
    \/ \E s \in Owners, t \in Thresholds :
          SetAutoResolveThreshold(s, t) /\ UNCHANGED vars

\* ------------------------------------------------------------------ specs
\* both contracts as deployed
PlatformInit == Init /\ DisputeInit

\* the escrow ledger; the registry stays as deployed
Spec == PlatformInit /\ [][Next]_allvars

\* the dispute registry; the escrow ledger stays as deployed
DisputeSpec == PlatformInit /\ [][DisputeNext]_allvars

\* the dispute registry with its arbitrator directory
DirectorySpec == PlatformInit /\ [][DisputeNext \/ DirectoryNext]_allvars

\* one large dispute over a longer run of the clock
LongRunSpec == PlatformInit /\ [][LongRunNext]_allvars

\* the evidence of one dispute, up to the cap
EvidenceSpec == PlatformInit /\ [][EvidenceNext]_allvars

\* the allocation of identifiers in both contracts
AllocationSpec == PlatformInit /\ [][AllocationNext]_allvars

\* the releases of two escrows interleaved
AuditSpec == PlatformInit /\ [][AuditNext]_allvars

\* two disputes and the arbitrator directory
CaseloadSpec == PlatformInit /\ [][CaseloadNext]_allvars

\* dispute-history under arbitrary sequences of rulings
ReputationSpec == PlatformInit /\ [][ReputationNext]_allvars

\* one dispute in a registry with a history of rulings
HistorySpec == PlatformInit /\ [][HistoryNext]_allvars

\* Both contracts.  They share no state but the clock, so a run of the
\* platform is a run of each contract; the runs explored here are those of
\* one component while the others stay as deployed: the escrow ledger, the
\* lifecycle of disputes, or the arbitrator directory before any dispute.
DirectoryOps == {"register-arbitrator", "deactivate-arbitrator"}

PlatformNext ==
    \/ dlast.op = "deploy" /\ Next
    \/ last.op = "deploy" /\ dlast.op \notin DirectoryOps /\ DisputeNext
    \/ last.op = "deploy" /\ disputeNonce = 0 /\ DirectoryNext

PlatformSpec == PlatformInit /\ [][PlatformNext]_allvars

\* ---------------------------------------------------------- type invariant
TypeOK ==
    /\ escrowNonce \in 0..MaxEscrows
    /\ DOMAIN escrowAccounts = 1..escrowNonce
    /\ milestoneNonce \in 0..MaxReleases

\* =================================================================== claims
\* ----------------------------------------------------- auxiliary operators
Escrows == DOMAIN escrowAccounts

RECURSIVE SumAmounts(_, _)
SumAmounts(releases, keys) ==
    IF keys = {} THEN 0
    ELSE LET k == CHOOSE x \in keys : TRUE
         IN releases[k].amount + SumAmounts(releases, keys \ {k})

\* the keys of the Release records of escrow e
ReleaseKeys(releases, e) == {k \in DOMAIN releases : k[1] = e}

\* the sum of the amounts of the Release records of escrow e
ReleasedSum(releases, e) == SumAmounts(releases, ReleaseKeys(releases, e))

\* releasedAmount minus the sum of the Release records, 0 for an unused id
Unrecorded(accounts, releases, e) ==
    IF e \in DOMAIN accounts
    THEN accounts[e].releasedAmount - ReleasedSum(releases, e)
    ELSE 0

\* the step just taken is a rejected call
Rejected == last'.code # Ok

\* the step just taken is a successful call of op
Succeeded(op) == last'.op = op /\ last'.code = Ok

\* the state follows a successful call of op
After(op) == last.op = op /\ last.code = Ok

\* ------------------------------------------------------------------- C1
\* C1: in every reachable state every escrow has 0 <= releasedAmount <= amount,
\* whatever sequence of release-funds and (repeated) release-milestone-funds
\* calls led to it.
C1_ReleasedWithinAmount ==
    \A e \in Escrows :
        /\ 0 <= escrowAccounts[e].releasedAmount
        /\ escrowAccounts[e].releasedAmount <= escrowAccounts[e].amount

\* C1 witness: a repeated release-milestone-funds for a milestone that was
\* already paid out is refused because it would exceed the balance.
C1_Witness ==
    /\ last.op = "release-milestone-funds"
    /\ last.code = ErrInsufficientFunds
    /\ \E k \in DOMAIN escrowReleases :
          /\ <<k[1], 1>> \in DOMAIN escrowMilestones
          /\ escrowMilestones[<<k[1], 1>>].amount > 0
          /\ escrowReleases[k].amount = escrowMilestones[<<k[1], 1>>].amount

\* ------------------------------------------------------------------- C2
\* C2 as stated: in every reachable state the Release records of an escrow
\* sum to its releasedAmount.
C2_ReleasesSumToReleased ==
    \A e \in Escrows :
        ReleasedSum(escrowReleases, e) = escrowAccounts[e].releasedAmount

\* C2 amended: the Release records of an escrow never sum to more than its
\* releasedAmount, and the difference between the two changes only in a
\* successful emergency-withdrawal on that escrow (which sets releasedAmount
\* to amount and writes no Release record).
C2_ReleasesSumUnlessEmergency ==
    /\ [](\A e \in Escrows :
            ReleasedSum(escrowReleases, e) <= escrowAccounts[e].releasedAmount)
    /\ [][\A e \in EscrowIds :
            ~(Succeeded("emergency-withdrawal") /\ last'.escrowId = e)
            => Unrecorded(escrowAccounts', escrowReleases', e)
                 = Unrecorded(escrowAccounts, escrowReleases, e)]_vars

\* C2 witness: an escrow with two Release records that sum to a positive
\* releasedAmount.
C2_Witness ==
    \E e \in Escrows :
        /\ Cardinality(ReleaseKeys(escrowReleases, e)) = 2
        /\ escrowAccounts[e].releasedAmount > 0
        /\ ReleasedSum(escrowReleases, e) = escrowAccounts[e].releasedAmount

\* ------------------------------------------------------------------- C3
\* C3 as stated: Released and Refunded are terminal (no later step changes the
\* status or the releasedAmount of such an escrow), a PartiallyReleased escrow
\* only moves to Released or Refunded, and no escrow returns to Active.
C3_TerminalStatesImmutable ==
    [][\A e \in Escrows :
          LET old == escrowAccounts[e]
              new == escrowAccounts'[e]
          IN /\ old.status \in {STATUS_RELEASED, STATUS_REFUNDED}
                  => /\ new.status = old.status
                     /\ new.releasedAmount = old.releasedAmount
             /\ old.status = STATUS_PARTIALLY_RELEASED
                  => new.status \in {STATUS_PARTIALLY_RELEASED, STATUS_RELEASED,
                                     STATUS_REFUNDED}
             /\ old.status # STATUS_ACTIVE => new.status # STATUS_ACTIVE]_vars

\* ------------------------------------------------------------------- C4
\* C4 as stated: an escrow's status is Released if and only if its
\* releasedAmount equals its amount.
C4_ReleasedIffDrained ==
    \A e \in Escrows :
        (escrowAccounts[e].status = STATUS_RELEASED)
            <=> (escrowAccounts[e].releasedAmount = escrowAccounts[e].amount)

\* C4 amended: a Released escrow has releasedAmount = amount; an escrow with
\* releasedAmount = amount is Released, or Refunded (emergency-withdrawal
\* drains releasedAmount while marking the escrow Refunded), or an Active
\* escrow of amount 0.
C4_ReleasedImpliesDrained ==
    \A e \in Escrows :
        LET escrow == escrowAccounts[e]
        IN /\ escrow.status = STATUS_RELEASED => escrow.releasedAmount = escrow.amount
           /\ escrow.releasedAmount = escrow.amount
                => \/ escrow.status \in {STATUS_RELEASED, STATUS_REFUNDED}
                   \/ escrow.amount = 0 /\ escrow.status = STATUS_ACTIVE

\* C4 witness: a release has just drained an escrow of positive amount, which
\* is now Released.
C4_Witness ==
    /\ After("release-milestone-funds")
    /\ last.pre.releasedAmount > 0
    /\ escrowAccounts[last.escrowId].status = STATUS_RELEASED
    /\ escrowAccounts[last.escrowId].releasedAmount = escrowAccounts[last.escrowId].amount

\* ------------------------------------------------------------------- C5
\* C5 as stated: a release request by the depositor for more than
\* amount - releasedAmount is answered InsufficientFunds whatever the status
\* of the escrow.
C5_OverReleaseInsufficientFunds ==
    \A e \in Escrows :
        LET escrow == escrowAccounts[e]
        IN /\ \A a \in ReleaseAmounts :
                a > escrow.amount - escrow.releasedAmount
                  => ReleaseFundsCode(escrow.depositor, e, a) = ErrInsufficientFunds
           /\ \A m \in MilestoneIds :
                /\ <<e, m>> \in DOMAIN escrowMilestones
                /\ escrowMilestones[<<e, m>>].status = MILESTONE_COMPLETED
                /\ escrowMilestones[<<e, m>>].amount > escrow.amount - escrow.releasedAmount
                => ReleaseMilestoneFundsCode(escrow.depositor, e, m) = ErrInsufficientFunds

\* C5 amended: such a request always fails and a rejected call changes nothing;
\* release-milestone-funds answers InsufficientFunds, and release-funds answers
\* InsufficientFunds on an Active escrow and InvalidState on any other, since
\* it checks the status first.
C5_OverReleaseRejected ==
    /\ [](\A e \in Escrows :
          LET escrow == escrowAccounts[e]
          IN /\ \A a \in ReleaseAmounts :
                  a > escrow.amount - escrow.releasedAmount
                    => ReleaseFundsCode(escrow.depositor, e, a) =
                         IF escrow.status = STATUS_ACTIVE
                         THEN ErrInsufficientFunds ELSE ErrInvalidStatus
             /\ \A m \in MilestoneIds :
                  /\ <<e, m>> \in DOMAIN escrowMilestones
                  /\ escrowMilestones[<<e, m>>].status = MILESTONE_COMPLETED
                  /\ escrowMilestones[<<e, m>>].amount > escrow.amount - escrow.releasedAmount
                  => ReleaseMilestoneFundsCode(escrow.depositor, e, m) = ErrInsufficientFunds)
    /\ [][Rejected => UNCHANGED <<ledger, now>>]_vars

\* C5 witness: release-funds has just been refused with InsufficientFunds on
\* an Active escrow.
C5_Witness ==
    /\ last.op = "release-funds"
    /\ last.code = ErrInsufficientFunds
    /\ \E e \in Escrows : escrowAccounts[e].status = STATUS_ACTIVE

\* ------------------------------------------------------------------- C6
\* C6: refund-escrow called while now < expiry fails for every caller and
\* every status and changes nothing; a successful extend-escrow-period adds
\* additional-time to the expiry, so no refund succeeds before the new expiry.
C6_NoRefundBeforeExpiry ==
    /\ [](\A e \in Escrows :
            /\ \A s \in Principals :
                  now < escrowAccounts[e].expiry => RefundEscrowCode(s, e) # Ok
            /\ After("refund-escrow") /\ last.escrowId = e => now >= last.pre.expiry
            /\ After("extend-escrow-period") /\ last.escrowId = e
                  => /\ escrowAccounts[e].expiry = last.pre.expiry + last.time
                     /\ \A s \in Principals :
                           now < last.pre.expiry + last.time
                             => RefundEscrowCode(s, e) # Ok)
    /\ [][last'.op = "refund-escrow" /\ Rejected => UNCHANGED <<ledger, now>>]_vars

\* C6 witness: a refund is refused as EscrowActive at a time when the expiry
\* set at creation has passed, because the period was extended.
C6_Witness ==
    /\ last.op = "refund-escrow"
    /\ last.code = ErrEscrowActive
    /\ \E e \in Escrows :
          /\ now >= escrowAccounts[e].createdAt + 1000
          /\ now < escrowAccounts[e].expiry
          /\ escrowAccounts[e].status = STATUS_ACTIVE

\* ------------------------------------------------------------------- C7
TotalRefunded(history, user) ==
    IF user \in DOMAIN history THEN history[user].totalRefunded ELSE 0

\* C7: refund-escrow succeeds exactly when the caller is the depositor,
\* now >= expiry and the status is Active or PartiallyReleased; a successful
\* call returns amount - releasedAmount as of the call, sets the status to
\* Refunded, leaves every other field of the escrow as it was and adds the
\* returned value to the depositor's total-refunded.
C7_RefundEscrow ==
    /\ [](\A e \in Escrows, s \in Principals :
            RefundEscrowCode(s, e) = Ok
              <=> /\ s = escrowAccounts[e].depositor
                  /\ now >= escrowAccounts[e].expiry
                  /\ escrowAccounts[e].status
                       \in {STATUS_ACTIVE, STATUS_PARTIALLY_RELEASED})
    /\ [][Succeeded("refund-escrow") =>
            LET e == last'.escrowId
                old == escrowAccounts[e]
                new == escrowAccounts'[e]
            IN /\ last'.sender = old.depositor
               /\ now >= old.expiry
               /\ old.status \in {STATUS_ACTIVE, STATUS_PARTIALLY_RELEASED}
               /\ last'.ret = old.amount - old.releasedAmount
               /\ new = [old EXCEPT !.status = STATUS_REFUNDED]
               /\ TotalRefunded(escrowHistory', old.depositor)
                    = TotalRefunded(escrowHistory, old.depositor) + last'.ret]_vars

\* C7 witness: a PartiallyReleased escrow has just been refunded and the call
\* returned the unreleased balance, less than the original amount.
C7_Witness ==
    /\ After("refund-escrow")
    /\ last.pre.status = STATUS_PARTIALLY_RELEASED
    /\ last.pre.releasedAmount > 0
    /\ last.ret = last.pre.amount - last.pre.releasedAmount
    /\ last.ret > 0
    /\ escrowAccounts[last.escrowId].status = STATUS_REFUNDED

\* ------------------------------------------------------------------- C8
\* C8: emergency-withdrawal succeeds only for the depositor on an Active
\* escrow, and answers InvalidState to the depositor on any other status; a
\* successful call returns available - fee with fee = floor(available *
\* feePercent / 100), that is 100 * fee <= available * feePercent <
\* 100 * (fee + 1), sets the status to Refunded and releasedAmount to amount;
\* for feePercent = 10 and available = 1,000,000 it returns 900,000.
C8_EmergencyWithdrawal ==
    /\ \A e \in Escrows, s \in Principals :
          /\ EmergencyWithdrawalCode(s, e) = Ok
                => /\ s = escrowAccounts[e].depositor
                   /\ escrowAccounts[e].status = STATUS_ACTIVE
          /\ /\ s = escrowAccounts[e].depositor
             /\ escrowAccounts[e].status
                  \in {STATUS_PARTIALLY_RELEASED, STATUS_RELEASED, STATUS_REFUNDED}
             => EmergencyWithdrawalCode(s, e) = ErrInvalidStatus
    /\ After("emergency-withdrawal") =>
          LET pre == last.pre
              new == escrowAccounts[last.escrowId]
              available == pre.amount - pre.releasedAmount
              fee == available - last.ret
          IN /\ last.sender = pre.depositor
             /\ pre.status = STATUS_ACTIVE
             /\ 100 * fee <= available * emergencyWithdrawalFee
             /\ available * emergencyWithdrawalFee < 100 * (fee + 1)
             /\ new = [pre EXCEPT !.status = STATUS_REFUNDED,
                                  !.releasedAmount = pre.amount]
             /\ emergencyWithdrawalFee = 10 /\ available = 1000000
                  => fee = 100000 /\ last.ret = 900000

\* C8 witness: an emergency withdrawal of 1,000,000 at 10% has returned 900,000.
C8_Witness ==
    /\ After("emergency-withdrawal")
    /\ emergencyWithdrawalFee = 10
    /\ last.pre.amount - last.pre.releasedAmount = 1000000
    /\ last.ret = 900000

\* C8 second case reached: a fee that is rounded down (15 at 33% pays 11).
C8_WitnessFloor ==
    /\ After("emergency-withdrawal")
    /\ emergencyWithdrawalFee = 33
    /\ last.pre.amount = 15
    /\ last.ret = 11

\* ------------------------------------------------------------------- C9
\* C9: release-funds succeeds only for the depositor on an Active escrow; a
\* successful call adds exactly its amount to releasedAmount, writes exactly
\* one new Release record, holding that amount and the beneficiary, and sets
\* the status to Released if releasedAmount now equals amount and to
\* PartiallyReleased otherwise; to the depositor of a PartiallyReleased escrow
\* release-funds answers InvalidState.
C9_ReleaseFunds ==
    /\ [](\A e \in Escrows, a \in ReleaseAmounts :
            /\ \A s \in Principals :
                  ReleaseFundsCode(s, e, a) = Ok
                    => /\ s = escrowAccounts[e].depositor
                       /\ escrowAccounts[e].status = STATUS_ACTIVE
            /\ escrowAccounts[e].status = STATUS_PARTIALLY_RELEASED
                  => ReleaseFundsCode(escrowAccounts[e].depositor, e, a)
                       = ErrInvalidStatus)
    /\ [][Succeeded("release-funds") =>
            LET e == last'.escrowId
                a == last'.amount
                old == escrowAccounts[e]
                new == escrowAccounts'[e]
                added == (DOMAIN escrowReleases') \ (DOMAIN escrowReleases)
            IN /\ last'.sender = old.depositor
               /\ old.status = STATUS_ACTIVE
               /\ new.releasedAmount = old.releasedAmount + a
               /\ new.status = IF new.releasedAmount = new.amount
                               THEN STATUS_RELEASED
                               ELSE STATUS_PARTIALLY_RELEASED
               /\ new = [old EXCEPT !.releasedAmount = new.releasedAmount,
                                    !.status = new.status]
               /\ Cardinality(added) = 1
               /\ \A k \in added :
                     /\ k[1] = e
                     /\ escrowReleases'[k].amount = a
                     /\ escrowReleases'[k].recipient = old.beneficiary
               /\ \A k \in DOMAIN escrowReleases :
                     /\ k \in DOMAIN escrowReleases'
                     /\ escrowReleases'[k] = escrowReleases[k]]_vars

\* C9 witness: a partial release-funds has left the escrow PartiallyReleased.
C9_Witness ==
    /\ After("release-funds")
    /\ last.amount = 400000
    /\ escrowAccounts[last.escrowId].releasedAmount = 400000
    /\ escrowAccounts[last.escrowId].status = STATUS_PARTIALLY_RELEASED
    /\ Cardinality(ReleaseKeys(escrowReleases, last.escrowId)) = 1

\* ------------------------------------------------------------------ C10
\* C10: release-milestone-funds succeeds only for the depositor and only for a
\* Completed milestone, a milestone becomes Completed only by a successful
\* complete-milestone of the beneficiary, the call fails and changes nothing
\* while the milestone is Pending, and a successful call adds exactly the
\* milestone's amount to releasedAmount and recomputes the status as
\* release-funds does.
C10_ReleaseMilestoneFunds ==
    /\ [](\A k \in DOMAIN escrowMilestones, s \in Principals :
            /\ ReleaseMilestoneFundsCode(s, k[1], k[2]) = Ok
                  => /\ s = escrowAccounts[k[1]].depositor
                     /\ escrowMilestones[k].status = MILESTONE_COMPLETED
            /\ escrowMilestones[k].status = MILESTONE_PENDING
                  => ReleaseMilestoneFundsCode(s, k[1], k[2]) # Ok)
    /\ [][/\ \A k \in DOMAIN escrowMilestones' :
               /\ escrowMilestones'[k].status = MILESTONE_COMPLETED
               /\ k \in DOMAIN escrowMilestones
                    => escrowMilestones[k].status # MILESTONE_COMPLETED
               => /\ Succeeded("complete-milestone")
                  /\ last'.escrowId = k[1]
                  /\ last'.milestoneId = k[2]
                  /\ last'.sender = escrowAccounts[k[1]].beneficiary
          /\ last'.op = "release-milestone-funds" /\ Rejected
               => UNCHANGED <<ledger, now>>
          /\ Succeeded("release-milestone-funds") =>
               LET e == last'.escrowId
                   milestone == escrowMilestones[<<e, last'.milestoneId>>]
                   old == escrowAccounts[e]
                   new == escrowAccounts'[e]
               IN /\ last'.sender = old.depositor
                  /\ milestone.status = MILESTONE_COMPLETED
                  /\ new.releasedAmount = old.releasedAmount + milestone.amount
                  /\ new.status = IF new.releasedAmount = new.amount
                                  THEN STATUS_RELEASED
                                  ELSE STATUS_PARTIALLY_RELEASED
                  /\ new = [old EXCEPT !.releasedAmount = new.releasedAmount,
                                       !.status = new.status]]_vars

\* C10 witness: the funds of a completed milestone of 600,000 have just been
\* released from an Active escrow, which is now PartiallyReleased.
C10_Witness ==
    /\ After("release-milestone-funds")
    /\ last.pre.status = STATUS_ACTIVE
    /\ escrowMilestones[<<last.escrowId, last.milestoneId>>].status = MILESTONE_COMPLETED
    /\ escrowMilestones[<<last.escrowId, last.milestoneId>>].amount = 600000
    /\ escrowAccounts[last.escrowId].releasedAmount = 600000
    /\ escrowAccounts[last.escrowId].status = STATUS_PARTIALLY_RELEASED

\* ------------------------------------------------------------------ C11
\* C11: the end-to-end scenario.  D creates an escrow of 1,000,000 with
\* duration 1000 and milestones for B, adds a milestone of 600,000, B
\* completes it and D releases it: releasedAmount is then 600,000 and the
\* status PartiallyReleased; from then on, once now >= expiry, refund-escrow
\* by D succeeds, returns 400,000 and leaves the escrow Refunded.
C11_EndToEnd ==
    \A e \in Escrows :
        LET escrow == escrowAccounts[e]
        IN /\ /\ After("release-milestone-funds") /\ last.escrowId = e
              /\ last.sender = "D" /\ last.pre.beneficiary = "B"
              /\ last.pre.amount = 1000000 /\ last.pre.releasedAmount = 0
              /\ last.pre.status = STATUS_ACTIVE /\ last.pre.requiresMilestones
              /\ escrowMilestones[<<e, last.milestoneId>>].amount = 600000
              => /\ escrow.releasedAmount = 600000
                 /\ escrow.status = STATUS_PARTIALLY_RELEASED
           /\ /\ escrow.depositor = "D" /\ escrow.amount = 1000000
              /\ escrow.releasedAmount = 600000
              /\ escrow.status = STATUS_PARTIALLY_RELEASED
              /\ now >= escrow.expiry
              => RefundEscrowCode("D", e) = Ok
           /\ /\ After("refund-escrow") /\ last.escrowId = e
              /\ last.pre.amount = 1000000 /\ last.pre.releasedAmount = 600000
              /\ last.pre.status = STATUS_PARTIALLY_RELEASED
              => /\ last.ret = 400000
                 /\ escrow.status = STATUS_REFUNDED

\* C11 witness: the scenario has run to its end: the escrow of D for B, never
\* extended, holds one Release record of 600,000 for its completed milestone
\* and has just been refunded 400,000.
C11_Witness ==
    /\ After("refund-escrow")
    /\ last.sender = "D"
    /\ last.ret = 400000
    /\ LET e == last.escrowId
       IN /\ escrowAccounts[e].beneficiary = "B"
          /\ escrowAccounts[e].requiresMilestones
          /\ escrowAccounts[e].expiry = escrowAccounts[e].createdAt + 1000
          /\ escrowAccounts[e].status = STATUS_REFUNDED
          /\ escrowAccounts[e].releasedAmount = 600000
          /\ escrowMilestones[<<e, 1>>].status = MILESTONE_COMPLETED
          /\ \E k \in ReleaseKeys(escrowReleases, e) : escrowReleases[k].amount = 600000
          /\ Cardinality(ReleaseKeys(escrowReleases, e)) = 1

\* ------------------------------------------------------------------ C12
\* C12: across every step, every existing escrow keeps its amount, depositor,
\* beneficiary and campaign id, and its releasedAmount never decreases.
C12_IdentityFixedReleasedMonotone ==
    [][\A e \in Escrows :
          /\ e \in DOMAIN escrowAccounts'
          /\ escrowAccounts'[e].amount = escrowAccounts[e].amount
          /\ escrowAccounts'[e].depositor = escrowAccounts[e].depositor
          /\ escrowAccounts'[e].beneficiary = escrowAccounts[e].beneficiary
          /\ escrowAccounts'[e].campaignId = escrowAccounts[e].campaignId
          /\ escrowAccounts'[e].releasedAmount >= escrowAccounts[e].releasedAmount]_vars

\* C12 witness: an escrow that was extended, partly released and then drained
\* by a milestone release: releasedAmount has grown twice, the identity
\* fields stand.
C12_Witness ==
    /\ After("release-milestone-funds")
    /\ last.pre.releasedAmount = 400000
    /\ LET escrow == escrowAccounts[last.escrowId]
       IN /\ escrow.releasedAmount = 1000000
          /\ escrow.amount = last.pre.amount
          /\ escrow.depositor = "D" /\ escrow.beneficiary = "B"
          /\ escrow.campaignId = 1
          /\ escrow.expiry > escrow.createdAt + 1000

\* ------------------------------------------------------------------ C13
\* the keys of the milestones of escrow e
MilestoneKeys(milestones, e) == {k \in DOMAIN milestones : k[1] = e}

\* the parts of escrow e that only its depositor may change: status,
\* releasedAmount and expiry, the Release records, the milestone set
DepositorPart(accounts, releases, milestones, e) ==
    <<accounts[e].status, accounts[e].releasedAmount, accounts[e].expiry,
      [k \in ReleaseKeys(releases, e) |-> releases[k]],
      [k \in MilestoneKeys(milestones, e) |->
          [description |-> milestones[k].description,
           amount |-> milestones[k].amount,
           conditionHash |-> milestones[k].conditionHash,
           deadline |-> milestones[k].deadline]]>>

\* milestone record "after" is "before" completed (or "before" itself)
CompletedOrSame(before, after) ==
    \/ after = before
    \/ /\ before.status = MILESTONE_PENDING
       /\ after.status = MILESTONE_COMPLETED
       /\ [after EXCEPT !.status = before.status, !.completedAt = before.completedAt] = before

\* C13: on an existing escrow (and, for release-milestone-funds, an existing
\* milestone) add-milestone, release-funds, release-milestone-funds,
\* refund-escrow, emergency-withdrawal and extend-escrow-period answer
\* Unauthorized to every principal but the depositor, the beneficiary and the
\* contract owner included, and an Unauthorized call changes nothing; a step
\* that changes an escrow's status, releasedAmount, expiry, Release records
\* or milestone set is a successful call of its depositor; a step of anyone
\* else changes, of that escrow, at most a milestone from Pending to
\* Completed, and that one is a call of the beneficiary.
C13_OnlyDepositorChangesEscrow ==
    /\ [](\A e \in Escrows : \A s \in Principals \ {escrowAccounts[e].depositor} :
            /\ AddMilestoneCode(s, e) = ErrUnauthorized
            /\ \A a \in ReleaseAmounts : ReleaseFundsCode(s, e, a) = ErrUnauthorized
            /\ \A k \in MilestoneKeys(escrowMilestones, e) :
                   ReleaseMilestoneFundsCode(s, e, k[2]) = ErrUnauthorized
            /\ RefundEscrowCode(s, e) = ErrUnauthorized
            /\ EmergencyWithdrawalCode(s, e) = ErrUnauthorized
            /\ ExtendEscrowPeriodCode(s, e) = ErrUnauthorized)
    /\ [][/\ last'.code = ErrUnauthorized => UNCHANGED <<ledger, now>>
          /\ \A e \in Escrows :
               /\ DepositorPart(escrowAccounts', escrowReleases', escrowMilestones', e)
                      # DepositorPart(escrowAccounts, escrowReleases, escrowMilestones, e)
                  => /\ last'.code = Ok
                     /\ last'.sender = escrowAccounts[e].depositor
               /\ ~(last'.code = Ok /\ last'.sender = escrowAccounts[e].depositor)
                  => /\ escrowAccounts'[e] = escrowAccounts[e]
                     /\ \A k \in MilestoneKeys(escrowMilestones, e) :
                          /\ CompletedOrSame(escrowMilestones[k], escrowMilestones'[k])
                          /\ escrowMilestones'[k] # escrowMilestones[k]
                             => /\ last'.sender = escrowAccounts[e].beneficiary
                                /\ Succeeded("complete-milestone")]_vars

\* C13 witness: the beneficiary has completed a milestone, and a principal
\* other than the depositor who then asked for its funds was answered
\* Unauthorized.
C13_Witness ==
    /\ last.op = "release-milestone-funds"
    /\ last.code = ErrUnauthorized
    /\ \E k \in DOMAIN escrowMilestones :
          /\ escrowMilestones[k].status = MILESTONE_COMPLETED
          /\ escrowAccounts[k[1]].status = STATUS_ACTIVE
          /\ ReleaseMilestoneFundsCode(escrowAccounts[k[1]].beneficiary, k[1], k[2])
                 = ErrUnauthorized
          /\ ReleaseMilestoneFundsCode(ContractOwner, k[1], k[2]) = ErrUnauthorized

\* ------------------------------------------------------------------ C15
\* the escrow-history record of a user, with the defaults of the code
HistoryOf(history, user) ==
    DefaultTo([totalDeposited |-> 0, totalReceived |-> 0,
               totalRefunded |-> 0, escrowsCompleted |-> 0], history, user)

\* the pending-escrows record of a user, with the defaults of the code
PendingOf(pending, user) ==
    DefaultTo([totalLocked |-> 0, totalEscrowedOut |-> 0], pending, user)

\* the sum of the amounts of the escrows created by user
CreatedSum(user) ==
    SumAmounts(escrowAccounts, {e \in Escrows : escrowAccounts[e].depositor = user})

\* the sum of the amounts of the Release records paid to user
ReceivedSum(user) ==
    SumAmounts(escrowReleases, {k \in DOMAIN escrowReleases : escrowReleases[k].recipient = user})

\* C15: the aggregates reconcile with the detail records.  For every user,
\* total-locked and total-deposited both equal the sum of the amounts of the
\* escrows the user created and total-received equals the sum of the Release
\* amounts paid to the user; total-escrowed equals the sum of all escrow
\* amounts; and total-refunded is the running sum of the balances returned to
\* the user by refund-escrow and emergency-withdrawal: it starts at 0, grows
\* by the returned balance on each of them and changes on no other step.
C15_AggregatesReconcile ==
    /\ [](/\ \A u \in Principals :
               /\ PendingOf(pendingEscrows, u).totalLocked = CreatedSum(u)
               /\ HistoryOf(escrowHistory, u).totalDeposited = CreatedSum(u)
               /\ HistoryOf(escrowHistory, u).totalReceived = ReceivedSum(u)
          /\ totalEscrowed = SumAmounts(escrowAccounts, Escrows))
    /\ \A u \in Principals : HistoryOf(escrowHistory, u).totalRefunded = 0
    /\ [][\A u \in Principals :
            HistoryOf(escrowHistory', u).totalRefunded
              = HistoryOf(escrowHistory, u).totalRefunded
                + (IF /\ Succeeded("refund-escrow") \/ Succeeded("emergency-withdrawal")
                      /\ last'.sender = u
                   THEN last'.ret ELSE 0)]_vars

\* ------------------------------------------------------------------ C16
\* the error codes of the contract
ErrorCodes ==
    {ErrOwnerOnly, ErrNotFound, ErrUnauthorized, ErrInsufficientFunds, ErrInvalidStatus,
     ErrMilestoneIncomplete, ErrEscrowExpired, ErrEscrowActive, ErrInvalidAmount}

\* The answers of create-escrow, with durationCodes the answers allowed for
\* a duration above the maximum: InvalidAmount below the minimum, else one of
\* durationCodes above the maximum duration, else Unauthorized when the
\* beneficiary is the caller, else success.
CreateEscrowAnswers(durationCodes) ==
    /\ \A s \in Principals, b \in Principals, a \in CreateAmounts, d \in Durations :
          LET code == CreateEscrowCode(s, b, a, d)
          IN IF a < minEscrowAmount THEN code = ErrInvalidAmount
             ELSE IF d > MaxEscrowDuration THEN code \in durationCodes
             ELSE IF b = s THEN code = ErrUnauthorized
             ELSE code = Ok
    /\ last.op = "create-escrow" /\ last.code # Ok
          => last.code \in {ErrInvalidAmount, ErrUnauthorized} \cup durationCodes

\* The effect of a create-escrow step: a rejected call changes nothing; a
\* successful one had a valid amount, duration and beneficiary, creates under
\* a fresh id an Active escrow with releasedAmount 0 and expiry now +
\* duration, and adds exactly the amount to total-escrowed and to the
\* caller's total-locked.
CreateEscrowEffect ==
    last'.op = "create-escrow" =>
        IF last'.code # Ok THEN UNCHANGED <<ledger, now>>
        ELSE LET e == last'.ret
             IN /\ e \notin DOMAIN escrowAccounts
                /\ last'.amount >= minEscrowAmount
                /\ last'.time <= MaxEscrowDuration
                /\ last'.beneficiary # last'.sender
                /\ escrowAccounts' = MapSet(escrowAccounts, e,
                       [campaignId |-> escrowAccounts'[e].campaignId,
                        depositor |-> last'.sender,
                        beneficiary |-> last'.beneficiary,
                        amount |-> last'.amount,
                        releasedAmount |-> 0,
                        status |-> STATUS_ACTIVE,
                        createdAt |-> now,
                        expiry |-> now + last'.time,
                        requiresMilestones |-> last'.flag])
                /\ totalEscrowed' = totalEscrowed + last'.amount
                /\ \A u \in Principals :
                      PendingOf(pendingEscrows', u).totalLocked
                        = PendingOf(pendingEscrows, u).totalLocked
                          + (IF u = last'.sender THEN last'.amount ELSE 0)

DisputeSucceeded(op) == dlast'.op = op /\ dlast'.code = Ok

\* the state follows a successful call of op to the registry
DisputeAfter(op) == dlast.op = op /\ dlast.code = Ok

\* the votes cast on dispute d
VotesOn(votes, d) == {k \in DOMAIN votes : k[1] = d}

C17_StatusTransitions ==
    [][\A d \in DOMAIN disputes :
          LET old == disputes[d].status
              new == disputes'[d].status
          IN /\ d \in DOMAIN disputes'
             /\ old # new =>
                  \/ /\ old = STATUS_OPEN /\ new = STATUS_UNDER_REVIEW
                     /\ DisputeSucceeded("assign-arbitrator")
                  \/ /\ old = STATUS_UNDER_REVIEW /\ new = STATUS_RESOLVED
                     /\ DisputeSucceeded("execute-ruling")
                  \/ /\ old = STATUS_OPEN /\ new = STATUS_RESOLVED
                     /\ DisputeSucceeded("auto-resolve-dispute")
                  \/ /\ old = STATUS_RESOLVED /\ new = STATUS_APPEALED
                     /\ DisputeSucceeded("appeal-decision")
                  \/ /\ old = STATUS_RESOLVED /\ new = STATUS_CLOSED
                     /\ DisputeSucceeded("close-dispute")
             /\ old = STATUS_CLOSED => disputes'[d] = disputes[d]
             /\ DisputeSucceeded("appeal-decision") /\ old # new
                  => old = STATUS_RESOLVED]_allvars

\* ------------------------------------------------------------------ C18
\* dispute d has an arbitrator assignment and a vote of the assigned arbitrator
HasVote(d) ==
    /\ d \in DOMAIN arbitratorAssignments
    /\ <<d, arbitratorAssignments[d].arbitrator>> \in DOMAIN arbitratorVotes

\* The answers to an authorized caller in the wrong status, but for
\* execute-ruling.  Each is InvalidState: assign-arbitrator by the owner
\* unless the dispute is Open, vote-on-dispute (whatever the outcome) by
\* the assigned arbitrator unless UnderReview, auto-resolve-dispute on a
\* small claim unless Open, close-dispute unless Resolved.
WrongStatusRejected(d) ==
    LET status == disputes[d].status
    IN /\ status # STATUS_OPEN
            => AssignArbitratorCode(ContractOwner, d) = DisputeErrInvalidStatus
       /\ status # STATUS_UNDER_REVIEW /\ d \in DOMAIN arbitratorAssignments
            => \A o \in VoteOutcomes :
                  VoteOnDisputeCode(arbitratorAssignments[d].arbitrator, d, o)
                      = DisputeErrInvalidStatus
       /\ status # STATUS_OPEN /\ disputes[d].amount <= autoResolveThreshold
            => AutoResolveDisputeCode(d) = DisputeErrInvalidStatus
       /\ status # STATUS_RESOLVED
            => CloseDisputeCode(d) = DisputeErrInvalidStatus

\* C18 as stated: an authorized call in the wrong status answers InvalidState
\* and changes nothing; in particular execute-ruling by the owner answers
\* InvalidState on every dispute that is not UnderReview, an Open one
\* included.
C18_WrongStatusInvalidState ==
    /\ [](\A d \in DOMAIN disputes :
            /\ WrongStatusRejected(d)
            /\ disputes[d].status # STATUS_UNDER_REVIEW
                 => ExecuteRulingCode(ContractOwner, d) = DisputeErrInvalidStatus)
    /\ [][dlast'.code # Ok => UNCHANGED <<dledger, now>>]_allvars

\* C18 amended: as stated, except that execute-ruling by the owner answers
\* InvalidState only on a dispute that has an assignment and a vote of the
\* assigned arbitrator; on a dispute without them, as every Open dispute is,
\* it answers NotFound, the lookups coming before the status check.
C18_WrongStatusRejected ==
    /\ [](\A d \in DOMAIN disputes :
            /\ WrongStatusRejected(d)
            /\ disputes[d].status # STATUS_UNDER_REVIEW
                 => ExecuteRulingCode(ContractOwner, d)
                      = (IF HasVote(d) THEN DisputeErrInvalidStatus ELSE DisputeErrNotFound)
            /\ disputes[d].status = STATUS_OPEN => ~HasVote(d))
    /\ [][dlast'.code # Ok => UNCHANGED <<dledger, now>>]_allvars

\* C18 witness: close-dispute was just answered InvalidState on a Closed
\* small claim that went through arbitration: in this state each of the five
\* operations is in the wrong status.
C18_Witness ==
    /\ dlast.op = "close-dispute"
    /\ dlast.code = DisputeErrInvalidStatus
    /\ \E d \in DOMAIN disputes :
          /\ disputes[d].status = STATUS_CLOSED
          /\ HasVote(d)
          /\ disputes[d].amount <= autoResolveThreshold
          /\ ExecuteRulingCode(ContractOwner, d) = DisputeErrInvalidStatus

\* ------------------------------------------------------------------ C19
\* C19: on an Open dispute whose amount is at most the threshold
\* auto-resolve-dispute succeeds, whoever calls it; after it the dispute is
\* Resolved, its outcome is Split with amountTransferred = amount div 2 and
\* canAppeal false, and it has no arbitrator assignment and no vote; on a
\* dispute whose amount exceeds the threshold it fails.
C19_AutoResolve ==
    /\ \A d \in DOMAIN disputes :
          /\ disputes[d].status = STATUS_OPEN /\ disputes[d].amount <= autoResolveThreshold
               => AutoResolveDisputeCode(d) = Ok
          /\ disputes[d].amount > autoResolveThreshold
               => AutoResolveDisputeCode(d) = DisputeErrInsufficientAmount
    /\ DisputeAfter("auto-resolve-dispute") =>
          LET d == dlast.disputeId
          IN /\ dlast.pre.status = STATUS_OPEN
             /\ dlast.pre.amount <= autoResolveThreshold
             /\ disputes[d] = [dlast.pre EXCEPT !.status = STATUS_RESOLVED, !.updatedAt = now]
             /\ disputeOutcomes[d].outcome = OUTCOME_SPLIT
             /\ disputeOutcomes[d].amountTransferred = dlast.pre.amount \div 2
             /\ disputeOutcomes[d].canAppeal = FALSE
             /\ disputeOutcomes[d].resolvedAt = now
             /\ d \notin DOMAIN arbitratorAssignments
             /\ VotesOn(arbitratorVotes, d) = {}

\* C19 witness: a principal who is no party to the dispute has just
\* auto-resolved a small claim of an odd amount, 1,000,001, after the clock
\* moved: 500,000 is recorded as transferred.
C19_Witness ==
    /\ DisputeAfter("auto-resolve-dispute")
    /\ dlast.sender = "A"
    /\ now > 0
    /\ dlast.pre.amount = 1000001
    /\ disputeOutcomes[dlast.disputeId].amountTransferred = 500000
    /\ disputes[dlast.disputeId].status = STATUS_RESOLVED

\* ------------------------------------------------------------------ C20
\* the reputation score of a party
Score(history, party) == PartyHistory(history, party).reputationScore

\* C20: every party's reputation score is within 0..100 in every state, and
\* a step that changes a party's history either records a win and raises
\* the score by 5, capped at 100, or records a loss and lowers it by 5,
\* floored at 0.
C20_ReputationBounded ==
    /\ [](\A p \in DisputePrincipals : Score(disputeHistory, p) \in 0..MaxReputation)
    /\ [][\A p \in DisputePrincipals :
            LET old == PartyHistory(disputeHistory, p)
                new == PartyHistory(disputeHistory', p)
            IN new # old =>
                 \/ /\ new.disputesWon = old.disputesWon + 1
                    /\ new.disputesLost = old.disputesLost
                    /\ new.reputationScore =
                         (IF old.reputationScore + 5 > 100 THEN 100
                          ELSE old.reputationScore + 5)
                 \/ /\ new.disputesLost = old.disputesLost + 1
                    /\ new.disputesWon = old.disputesWon
                    /\ new.reputationScore =
                         (IF old.reputationScore - 5 < 0 THEN 0
                          ELSE old.reputationScore - 5)]_allvars

\* C20 witness: P has won every ruling, D has lost every one, 21 of them: the
\* last win was capped at 100 and the last loss floored at 0.
C20_Witness ==
    /\ dlast.op = "update-party-reputation"
    /\ dlast.arg = OUTCOME_PUBLISHER_WINS
    /\ PartyHistory(disputeHistory, "D").disputesLost = 21
    /\ Score(disputeHistory, "D") = 0
    /\ PartyHistory(disputeHistory, "P").disputesWon = 21
    /\ Score(disputeHistory, "P") = MaxReputation

\* ------------------------------------------------------------------ C21
\* the parties of dispute d
Parties(d) == {disputes[d].advertiser, disputes[d].publisher}

\* the time since dispute d was resolved
Elapsed(d) == now - disputeOutcomes[d].resolvedAt

\* what a successful appeal-decision requires and does, and what a rejected
\* one leaves alone
AppealEffect ==
    /\ dlast'.op = "appeal-decision" /\ dlast'.code # Ok
         => UNCHANGED <<dledger, now>>
    /\ DisputeSucceeded("appeal-decision") =>
         LET d == dlast'.disputeId
         IN /\ dlast'.sender \in Parties(d)
            /\ disputeOutcomes[d].canAppeal
            /\ Elapsed(d) < appealWindow
            /\ disputes'[d].status = STATUS_APPEALED

\* C21 as stated: appeal-decision by a party succeeds only if the recorded
\* outcome has canAppeal and the time since resolvedAt is less than the
\* appeal window; when that time equals the window, and at any later time,
\* it fails with Expired; a rejected appeal leaves the dispute unchanged.
C21_AppealExpiredAtWindow ==
    /\ [](\A d \in DOMAIN disputeOutcomes : \A s \in Parties(d) :
            /\ AppealDecisionCode(s, d) = Ok
                 => disputeOutcomes[d].canAppeal /\ Elapsed(d) < appealWindow
            /\ Elapsed(d) >= appealWindow
                 => AppealDecisionCode(s, d) = DisputeErrAppealExpired)
    /\ [][AppealEffect]_allvars

\* C21 amended: as stated, except that Expired is the answer at and after
\* the end of the window on an appealable outcome only; on an outcome
\* without canAppeal the appeal fails with InvalidState at every time, that
\* check coming before the check of the window.
C21_AppealWindow ==
    /\ [](\A d \in DOMAIN disputeOutcomes : \A s \in Parties(d) :
            /\ AppealDecisionCode(s, d) = Ok
                 => disputeOutcomes[d].canAppeal /\ Elapsed(d) < appealWindow
            /\ disputeOutcomes[d].canAppeal /\ Elapsed(d) >= appealWindow
                 => AppealDecisionCode(s, d) = DisputeErrAppealExpired
            /\ ~disputeOutcomes[d].canAppeal
                 => AppealDecisionCode(s, d) = DisputeErrInvalidStatus)
    /\ [][AppealEffect]_allvars

\* C21 witness: a party's appeal of an appealable outcome has just failed
\* with Expired at the instant the time since resolvedAt equals the window.
C21_Witness ==
    /\ dlast.op = "appeal-decision"
    /\ dlast.code = DisputeErrAppealExpired
    /\ \E d \in DOMAIN disputeOutcomes :
          /\ disputeOutcomes[d].canAppeal
          /\ Elapsed(d) = appealWindow
          /\ disputes[d].status = STATUS_RESOLVED

\* ------------------------------------------------------------------ C22
\* The step is the last of the scenario: the owner executes the ruling on a
\* payment dispute of 2,000,000 between advertiser D and publisher P that
\* is under review by arbitrator A, who voted PublisherWins.
ScenarioRuling(d) ==
    /\ DisputeSucceeded("execute-ruling")
    /\ dlast'.disputeId = d
    /\ dlast'.sender = ContractOwner
    /\ disputes[d].advertiser = "D"
    /\ disputes[d].publisher = "P"
    /\ disputes[d].disputeType = TYPE_PAYMENT
    /\ disputes[d].amount = 2000000
    /\ disputes[d].status = STATUS_UNDER_REVIEW
    /\ arbitratorAssignments[d].arbitrator = "A"
    /\ arbitratorVotes[<<d, "A">>].outcome = OUTCOME_PUBLISHER_WINS

\* what the scenario leaves in the dispute and its outcome
ScenarioOutcome(d) ==
    /\ disputes'[d].status = STATUS_RESOLVED
    /\ disputeOutcomes'[d].outcome = OUTCOME_PUBLISHER_WINS
    /\ disputeOutcomes'[d].winner = "P"
    /\ disputeOutcomes'[d].amountTransferred = 2000000
    /\ disputeOutcomes'[d].canAppeal = (2000000 >= 5 * autoResolveThreshold)
    /\ Score(disputeHistory', "D") = Score(disputeHistory, "D") - 5

C23_OutcomeByVote ==
    [][DisputeSucceeded("execute-ruling") =>
          LET d == dlast'.disputeId
              dispute == disputes[d]
              vote == arbitratorVotes[<<d, arbitratorAssignments[d].arbitrator>>]
              outcome == disputeOutcomes'[d]
          IN /\ outcome.outcome = vote.outcome
             /\ vote.outcome = OUTCOME_ADVERTISER_WINS
                  => /\ outcome.winner = dispute.advertiser
                     /\ outcome.amountTransferred = dispute.amount
             /\ vote.outcome = OUTCOME_PUBLISHER_WINS
                  => /\ outcome.winner = dispute.publisher
                     /\ outcome.amountTransferred = dispute.amount
             /\ vote.outcome = OUTCOME_SPLIT
                  => outcome.amountTransferred = dispute.amount \div 2
             /\ vote.outcome = OUTCOME_DISMISSED
                  => outcome.winner \notin {dispute.advertiser, dispute.publisher}
             /\ outcome.canAppeal = (dispute.amount >= 5 * autoResolveThreshold)]_allvars

\* ------------------------------------------------------------------ C24
\* C24: on a dispute with an assigned arbitrator every other caller of
\* vote-on-dispute is answered Unauthorized; the dispute has at most one
\* vote, the assigned arbitrator's, and a successful vote by the arbitrator
\* puts its outcome in the place of the earlier one; nothing but a
\* successful vote changes the votes; the outcome execute-ruling records is
\* the outcome of that vote; while the arbitrator has not voted the
\* dispute is UnderReview and execute-ruling is answered NotFound and
\* changes nothing.
C24_ArbitratorVote ==
    /\ [](\A d \in DOMAIN arbitratorAssignments :
            LET arbitrator == arbitratorAssignments[d].arbitrator
            IN /\ \A s \in DisputePrincipals \ {arbitrator}, o \in VoteOutcomes :
                     VoteOnDisputeCode(s, d, o) = DisputeErrUnauthorized
               /\ VotesOn(arbitratorVotes, d) \subseteq {<<d, arbitrator>>}
               /\ ~HasVote(d) =>
                     /\ disputes[d].status = STATUS_UNDER_REVIEW
                     /\ \A s \in DisputePrincipals :
                           ExecuteRulingCode(s, d) = DisputeErrNotFound)
    /\ [][/\ arbitratorVotes' # arbitratorVotes => DisputeSucceeded("vote-on-dispute")
          /\ DisputeSucceeded("vote-on-dispute") =>
               LET d == dlast'.disputeId
               IN /\ dlast'.sender = arbitratorAssignments[d].arbitrator
                  /\ dlast'.flag = HasVote(d)
                  /\ VotesOn(arbitratorVotes', d) = {<<d, dlast'.sender>>}
                  /\ arbitratorVotes'[<<d, dlast'.sender>>].outcome = dlast'.arg
          /\ DisputeSucceeded("execute-ruling") =>
               LET d == dlast'.disputeId
               IN disputeOutcomes'[d].outcome =
                    arbitratorVotes[<<d, arbitratorAssignments[d].arbitrator>>].outcome
          /\ dlast'.op = "execute-ruling" /\ dlast'.code # Ok
               => UNCHANGED <<dledger, now>>]_allvars

\* C24 witness: the assigned arbitrator has just voted PublisherWins in the
\* place of an earlier vote: the dispute has that one vote, and
\* execute-ruling by the owner would now succeed.
C24_Witness ==
    /\ DisputeAfter("vote-on-dispute")
    /\ dlast.flag
    /\ dlast.arg = OUTCOME_PUBLISHER_WINS
    /\ LET d == dlast.disputeId
       IN /\ dlast.sender = arbitratorAssignments[d].arbitrator
          /\ VotesOn(arbitratorVotes, d) = {<<d, dlast.sender>>}
          /\ arbitratorVotes[<<d, dlast.sender>>].outcome = OUTCOME_PUBLISHER_WINS
          /\ ExecuteRulingCode(ContractOwner, d) = Ok

\* ------------------------------------------------------------------ C25
\* the evidence records of dispute d
EvidenceKeys(d) == {k \in DOMAIN evidenceSubmissions : k[1] = d}

\* C25: submit-evidence succeeds only for the advertiser or the publisher
\* of the dispute and only while it is Open or UnderReview; a dispute never
\* has more than 10 evidence records, and at 10 a party's attempt is
\* answered LimitExceeded; the evidence count of a dispute is the number of
\* its records, whose ids are 1..count; a successful call returns count + 1
\* and stores the record under that id.
C25_EvidenceCap ==
    /\ [](\A d \in DOMAIN disputes :
            LET count == GetEvidenceCount(d).totalEvidence
            IN /\ count <= 10
               /\ EvidenceKeys(d) = {<<d, i>> : i \in 1..count}
               /\ Cardinality(EvidenceKeys(d)) = count
               /\ \A s \in DisputePrincipals :
                     /\ SubmitEvidenceCode(s, d) = Ok
                          => /\ s \in Parties(d)
                             /\ disputes[d].status \in {STATUS_OPEN, STATUS_UNDER_REVIEW}
                             /\ count < 10
                     /\ s \in Parties(d) /\ count = 10
                          => SubmitEvidenceCode(s, d) = DisputeErrEvidenceLimit)
    /\ [][/\ DisputeSucceeded("submit-evidence") =>
               LET d == dlast'.disputeId
                   count == GetEvidenceCount(d).totalEvidence
               IN /\ dlast'.sender \in Parties(d)
                  /\ disputes[d].status \in {STATUS_OPEN, STATUS_UNDER_REVIEW}
                  /\ dlast'.ret = count + 1
                  /\ evidenceCount'[d].totalEvidence = count + 1
                  /\ evidenceSubmissions'[<<d, count + 1>>].submitter = dlast'.sender
                  /\ \A k \in DOMAIN evidenceSubmissions :
                        evidenceSubmissions'[k] = evidenceSubmissions[k]
          /\ dlast'.op = "submit-evidence" /\ dlast'.code # Ok
               => UNCHANGED <<dledger, now>>]_allvars

\* C25 witness: a party's eleventh submission has just been answered
\* LimitExceeded on a dispute under review that holds ten records.
C25_Witness ==
    /\ dlast.op = "submit-evidence"
    /\ dlast.code = DisputeErrEvidenceLimit
    /\ \E d \in DOMAIN disputes :
          /\ GetEvidenceCount(d).totalEvidence = MaxEvidencePerDispute
          /\ Cardinality(EvidenceKeys(d)) = 10
          /\ disputes[d].status = STATUS_UNDER_REVIEW

\* ------------------------------------------------------------------ C26
\* the stats of an arbitrator, with the defaults assign-arbitrator uses
StatsOf(stats, arbitrator) ==
    DefaultTo([totalCases |-> 0, casesResolved |-> 0,
               reputation |-> MaxReputation, active |-> TRUE], stats, arbitrator)

\* C26: assign-arbitrator succeeds only for the owner on an Open dispute,
\* and an Open dispute has no assignment; a successful call makes the
\* dispute UnderReview, records the arbitrator with assignedAt = now and
\* decisionDeadline = now + 720, and adds exactly 1 to the arbitrator's
\* totalCases; nothing else writes an assignment and no assignment is ever
\* rewritten, so a dispute has at most one over its lifetime.
C26_AssignArbitrator ==
    /\ [](\A d \in DOMAIN disputes :
            /\ \A s \in DisputePrincipals :
                  AssignArbitratorCode(s, d) = Ok
                      => s = ContractOwner /\ disputes[d].status = STATUS_OPEN
            /\ disputes[d].status = STATUS_OPEN => d \notin DOMAIN arbitratorAssignments)
    /\ [][/\ DisputeSucceeded("assign-arbitrator") =>
               LET d == dlast'.disputeId
                   a == dlast'.party
               IN /\ dlast'.sender = ContractOwner
                  /\ disputes[d].status = STATUS_OPEN
                  /\ disputes'[d] = [disputes[d] EXCEPT !.status = STATUS_UNDER_REVIEW,
                                                        !.updatedAt = now]
                  /\ d \notin DOMAIN arbitratorAssignments
                  /\ arbitratorAssignments'[d] =
                       [arbitrator |-> a, assignedAt |-> now,
                        decisionDeadline |-> now + 720]
                  /\ StatsOf(arbitratorStats', a).totalCases =
                       StatsOf(arbitratorStats, a).totalCases + 1
          /\ arbitratorAssignments' # arbitratorAssignments
               => DisputeSucceeded("assign-arbitrator")
          /\ \A d \in DOMAIN arbitratorAssignments :
               /\ d \in DOMAIN arbitratorAssignments'
               /\ arbitratorAssignments'[d] = arbitratorAssignments[d]]_allvars

\* C26 witness: the owner has just assigned A at time 1000: the dispute is
\* UnderReview, the decision is due at 1720, A has one case.
C26_Witness ==
    /\ DisputeAfter("assign-arbitrator")
    /\ dlast.sender = ContractOwner
    /\ now = 1000
    /\ LET d == dlast.disputeId
       IN /\ dlast.pre.status = STATUS_OPEN
          /\ disputes[d].status = STATUS_UNDER_REVIEW
          /\ arbitratorAssignments[d].arbitrator = "A"
          /\ arbitratorAssignments[d].decisionDeadline = 1720
    /\ arbitratorStats["A"].totalCases = 1

\* ------------------------------------------------------------------ C27
\* C27: open-dispute fails for every amount below the minimum and for every
\* otherParty equal to the caller, and a failed call creates nothing; a
\* successful call creates an Open dispute with resolutionDeadline = now +
\* 1440, the caller as advertiser and otherParty as publisher when the flag
\* is true and the reverse when it is false; in every dispute the
\* advertiser and the publisher are distinct principals.
C27_OpenDispute ==
    /\ [](/\ \A s \in DisputePrincipals, o \in DisputePrincipals,
                t \in DisputeTypes, a \in DisputeAmounts :
                a < MinDisputeAmount \/ o = s => OpenDisputeCode(s, o, t, a) # Ok
          /\ \A d \in DOMAIN disputes : disputes[d].advertiser # disputes[d].publisher)
    /\ [][/\ dlast'.op = "open-dispute" /\ dlast'.code # Ok
               => UNCHANGED <<dledger, now>>
          /\ DisputeSucceeded("open-dispute") =>
               LET d == dlast'.ret
                   caller == dlast'.sender
                   other == dlast'.party
               IN /\ dlast'.arg >= MinDisputeAmount
                  /\ other # caller
                  /\ d \notin DOMAIN disputes
                  /\ DOMAIN disputes' = DOMAIN disputes \cup {d}
                  /\ disputes'[d].status = STATUS_OPEN
                  /\ disputes'[d].amount = dlast'.arg
                  /\ disputes'[d].resolutionDeadline = now + 1440
                  /\ disputes'[d].advertiser = (IF dlast'.flag THEN caller ELSE other)
                  /\ disputes'[d].publisher = (IF dlast'.flag THEN other ELSE caller)]_allvars

\* C27 witness: D has just opened a dispute against P at time 1000 with the
\* flag false: P is the advertiser, D the publisher, resolution is due at
\* 2440; the same call with 500,000 or against D itself is rejected.
C27_Witness ==
    /\ DisputeAfter("open-dispute")
    /\ dlast.sender = "D"
    /\ dlast.party = "P"
    /\ ~dlast.flag
    /\ now = 1000
    /\ LET d == dlast.ret
       IN /\ disputes[d].advertiser = "P"
          /\ disputes[d].publisher = "D"
          /\ disputes[d].status = STATUS_OPEN
          /\ disputes[d].resolutionDeadline = 2440
    /\ OpenDisputeCode("D", "P", TYPE_PAYMENT, 500000) = DisputeErrInsufficientAmount
    /\ OpenDisputeCode("D", "D", TYPE_PAYMENT, 2000000) = DisputeErrInvalidParty

\* ------------------------------------------------------------------ C28
\* the step is a successful call by the contract owner
OwnerStep == dlast'.code = Ok /\ dlast'.sender = ContractOwner

\* C28: an Open dispute whose amount exceeds the auto-resolve threshold is
\* still Open after every step that is not a successful call of the owner,
\* a step of the clock past resolutionDeadline included; a dispute goes
\* from Open to UnderReview only by the owner's assign-arbitrator and from
\* UnderReview to Resolved only by the owner's execute-ruling, so every
\* Resolved dispute with an arbitrator assignment had both.
C28_OwnerOrSmallClaim ==
    /\ [](\A d \in DOMAIN disputes :
            disputes[d].status = STATUS_OPEN /\ disputes[d].amount > autoResolveThreshold
                => \A s \in DisputePrincipals \ {ContractOwner} :
                      /\ AssignArbitratorCode(s, d) # Ok
                      /\ AutoResolveDisputeCode(d) # Ok
                      /\ ExecuteRulingCode(s, d) # Ok
                      /\ CloseDisputeCode(d) # Ok
                      /\ AppealDecisionCode(s, d) # Ok)
    /\ [][\A d \in DOMAIN disputes :
            LET old == disputes[d].status
                new == disputes'[d].status
            IN /\ old = STATUS_OPEN /\ disputes[d].amount > autoResolveThreshold
                    /\ ~OwnerStep
                    => new = STATUS_OPEN
               /\ old = STATUS_OPEN /\ new = STATUS_UNDER_REVIEW
                    => OwnerStep /\ dlast'.op = "assign-arbitrator"
               /\ old = STATUS_UNDER_REVIEW /\ new # old
                    => OwnerStep /\ dlast'.op = "execute-ruling"
                       /\ new = STATUS_RESOLVED
               /\ old = STATUS_OPEN /\ new = STATUS_RESOLVED
                    => /\ dlast'.op = "auto-resolve-dispute"
                       /\ disputes[d].amount <= autoResolveThreshold
                       /\ d \notin DOMAIN arbitratorAssignments']_allvars

\* C28 witness: at time 2000, past its resolution deadline of 1440, a
\* dispute above the threshold is still Open, and auto-resolve-dispute has
\* just been refused.
C28_Witness ==
    /\ dlast.op = "auto-resolve-dispute"
    /\ dlast.code = DisputeErrInsufficientAmount
    /\ now = 2000
    /\ \E d \in DOMAIN disputes :
          /\ disputes[d].status = STATUS_OPEN
          /\ disputes[d].resolutionDeadline = 1440
          /\ disputes[d].amount > autoResolveThreshold
          /\ d \notin DOMAIN arbitratorAssignments

\* ------------------------------------------------------------------ C29
\* the keys <<owner, 1>> .. <<owner, count>>
KeysUpTo(owner, count) == {<<owner, i>> : i \in 1..count}

\* the milestone count of an escrow and the evidence count of a dispute in
\* the given maps, 0 where the map has no entry
MilestoneTotal(counts, e) == DefaultTo([total |-> 0, completed |-> 0], counts, e).total

EvidenceTotal(counts, d) == DefaultTo([totalEvidence |-> 0], counts, d).totalEvidence

\* C29: in each of the four collections the identifiers in use are 1 up to
\* the nonce or count of the collection: escrows and disputes up to their
\* nonce, the milestones of an escrow and the evidence of a dispute up to
\* its count; a successful create-escrow, open-dispute, add-milestone or
\* submit-evidence returns the nonce or count plus one and leaves it at that
\* value; a rejected call changes no nonce, count or record; a nonce or
\* count changes in no other step.
C29_Identifiers ==
    /\ [](/\ DOMAIN escrowAccounts = 1..escrowNonce
          /\ DOMAIN disputes = 1..disputeNonce
          /\ \A k \in DOMAIN escrowMilestones : k[1] \in DOMAIN escrowAccounts
          /\ \A k \in DOMAIN evidenceSubmissions : k[1] \in DOMAIN disputes
          /\ \A e \in DOMAIN escrowAccounts :
                MilestoneKeys(escrowMilestones, e)
                    = KeysUpTo(e, GetMilestoneCount(e).total)
          /\ \A d \in DOMAIN disputes :
                EvidenceKeys(d) = KeysUpTo(d, GetEvidenceCount(d).totalEvidence))
    /\ [][/\ Succeeded("create-escrow") /\ dlast' = dlast
               => last'.ret = escrowNonce + 1 /\ escrowNonce' = escrowNonce + 1
          /\ DisputeSucceeded("open-dispute") /\ last' = last
               => dlast'.ret = disputeNonce + 1 /\ disputeNonce' = disputeNonce + 1
          /\ Succeeded("add-milestone") /\ dlast' = dlast
               => LET e == last'.escrowId
                  IN /\ last'.ret = GetMilestoneCount(e).total + 1
                     /\ MilestoneTotal(milestoneCount', e) = GetMilestoneCount(e).total + 1
          /\ DisputeSucceeded("submit-evidence") /\ last' = last
               => LET d == dlast'.disputeId
                  IN /\ dlast'.ret = GetEvidenceCount(d).totalEvidence + 1
                     /\ EvidenceTotal(evidenceCount', d)
                          = GetEvidenceCount(d).totalEvidence + 1
          /\ last'.code # Ok /\ dlast' = dlast => UNCHANGED <<ledger, dledger>>
          /\ dlast'.code # Ok /\ last' = last => UNCHANGED <<ledger, dledger>>
          /\ escrowNonce' # escrowNonce => Succeeded("create-escrow")
          /\ disputeNonce' # disputeNonce => DisputeSucceeded("open-dispute")
          /\ \A e \in DOMAIN escrowAccounts :
                MilestoneTotal(milestoneCount', e) # GetMilestoneCount(e).total
                    => Succeeded("add-milestone") /\ last'.escrowId = e
          /\ \A d \in DOMAIN disputes :
                EvidenceTotal(evidenceCount', d) # GetEvidenceCount(d).totalEvidence
                    => DisputeSucceeded("submit-evidence") /\ dlast'.disputeId = d]_allvars

\* C29 witness: the second evidence of the second dispute has just been
\* stored under id 2, by another party than the first, while the first
\* dispute has one record, the second escrow two milestones and the first
\* escrow one.
C29_Witness ==
    /\ DisputeAfter("submit-evidence")
    /\ dlast.disputeId = 2
    /\ dlast.ret = 2
    /\ evidenceSubmissions[<<2, 1>>].submitter # evidenceSubmissions[<<2, 2>>].submitter
    /\ disputeNonce = 2
    /\ GetEvidenceCount(1).totalEvidence = 1
    /\ escrowNonce = 2
    /\ GetMilestoneCount(1).total = 1
    /\ GetMilestoneCount(2).total = 2
    /\ last.op = "add-milestone" /\ last.ret = 2 /\ last.escrowId = 2

\* ------------------------------------------------------------------ C30
\* the configuration functions of the escrow ledger and of the registry
EscrowConfigOps == {"set-min-escrow-amount", "set-emergency-fee"}

RegistryConfigOps == {"register-arbitrator", "deactivate-arbitrator",
                      "set-auto-resolve-threshold", "set-appeal-window"}

\* C30: a call of one of the six configuration functions succeeds only for
\* the contract owner, and a call that fails changes nothing; the settings
\* change in no step but a successful call of their function; a successful
\* set-emergency-fee sets at most 50, the emergency fee is at most 50 in
\* every state, and a successful emergency-withdrawal returns at least half
\* of the available balance.
C30_OwnerGatedConfiguration ==
    /\ [](emergencyWithdrawalFee <= 50)
    /\ [][/\ last'.op \in EscrowConfigOps /\ dlast' = dlast =>
               IF last'.code = Ok
               THEN last'.sender = ContractOwner
               ELSE UNCHANGED <<ledger, dledger, now>>
          /\ dlast'.op \in RegistryConfigOps /\ last' = last =>
               IF dlast'.code = Ok
               THEN dlast'.sender = ContractOwner
               ELSE UNCHANGED <<ledger, dledger, now>>
          /\ minEscrowAmount' # minEscrowAmount => Succeeded("set-min-escrow-amount")
          /\ emergencyWithdrawalFee' # emergencyWithdrawalFee
               => Succeeded("set-emergency-fee") /\ last'.amount <= 50
          /\ autoResolveThreshold' # autoResolveThreshold
               => DisputeSucceeded("set-auto-resolve-threshold")
          /\ appealWindow' # appealWindow => DisputeSucceeded("set-appeal-window")
          /\ \A a \in DOMAIN arbitratorStats :
               arbitratorStats'[a].active # arbitratorStats[a].active
                   => dlast'.op \in RegistryConfigOps /\ dlast'.code = Ok
          /\ Succeeded("emergency-withdrawal") /\ dlast' = dlast
               => 2 * last'.ret >= Available(last'.pre)]_allvars

\* C30 witness: after the owner set the emergency fee to 33, an emergency
\* withdrawal of 1,000,000 has just returned 670,000.
C30_Witness ==
    /\ After("emergency-withdrawal")
    /\ emergencyWithdrawalFee = 33
    /\ Available(last.pre) = 1000000
    /\ last.ret = 670000

\* ------------------------------------------------------------------ C31
\* C31: add-milestone succeeds exactly when the escrow exists, the caller is
\* its depositor, it was created with requiresMilestones and its status is
\* Active; on a non-milestone escrow and on a PartiallyReleased, Released or
\* Refunded one it fails for everybody; a failed call leaves the milestones
\* as they were, and a successful one writes one new milestone, under the
\* next id of that escrow, which is Pending.
C31_AddMilestone ==
    /\ [](\A e \in EscrowIds, s \in Principals :
            /\ AddMilestoneCode(s, e) = Ok
                  <=> /\ e \in Escrows
                      /\ s = escrowAccounts[e].depositor
                      /\ escrowAccounts[e].requiresMilestones
                      /\ escrowAccounts[e].status = STATUS_ACTIVE
            /\ /\ e \in Escrows
               /\ \/ ~escrowAccounts[e].requiresMilestones
                  \/ escrowAccounts[e].status \in
                        {STATUS_PARTIALLY_RELEASED, STATUS_RELEASED, STATUS_REFUNDED}
               => AddMilestoneCode(s, e) \in ErrorCodes)
    /\ [][/\ last'.op = "add-milestone" /\ Rejected
               => /\ escrowMilestones' = escrowMilestones
                  /\ milestoneCount' = milestoneCount
          /\ Succeeded("add-milestone") =>
               LET e == last'.escrowId
                   k == <<e, last'.ret>>
               IN /\ last'.sender = escrowAccounts[e].depositor
                  /\ escrowAccounts[e].requiresMilestones
                  /\ escrowAccounts[e].status = STATUS_ACTIVE
                  /\ k \notin DOMAIN escrowMilestones
                  /\ DOMAIN escrowMilestones' = DOMAIN escrowMilestones \cup {k}
                  /\ escrowMilestones'[k].status = MILESTONE_PENDING
                  /\ escrowMilestones'[k].completedAt = 0
                  /\ \A j \in DOMAIN escrowMilestones :
                        escrowMilestones'[j] = escrowMilestones[j]
          /\ \A k \in DOMAIN escrowMilestones' \ DOMAIN escrowMilestones :
               /\ Succeeded("add-milestone")
               /\ escrowMilestones'[k].status = MILESTONE_PENDING]_vars

\* C31 witness: the depositor of a milestone escrow that a release has left
\* PartiallyReleased asked for another milestone and was answered
\* InvalidStatus, after a first milestone had been added, Pending, while the
\* escrow was Active.
C31_Witness ==
    /\ last.op = "add-milestone"
    /\ last.code = ErrInvalidStatus
    /\ \E e \in Escrows :
          /\ escrowAccounts[e].requiresMilestones
          /\ escrowAccounts[e].status = STATUS_PARTIALLY_RELEASED
          /\ AddMilestoneCode(escrowAccounts[e].depositor, e) = ErrInvalidStatus
          /\ <<e, 1>> \in DOMAIN escrowMilestones

\* ------------------------------------------------------------------ C32
\* C32: complete-milestone succeeds exactly for the beneficiary of the escrow
\* on an existing Pending milestone; a successful call turns that milestone
\* Completed with completedAt = now, leaves its other fields and every other
\* milestone alone, counts it in milestone-count, and moves no funds: the
\* escrow records, the Release records, the release counter, total-escrowed
\* and the per-user aggregates are unchanged; a Completed milestone stays
\* Completed with the same completedAt in every later step, and
\* complete-milestone on it is rejected for every caller.
C32_CompleteMilestone ==
    /\ [](\A e \in EscrowIds, m \in MilestoneIds, s \in Principals :
            /\ CompleteMilestoneCode(s, e, m) = Ok
                  <=> /\ <<e, m>> \in DOMAIN escrowMilestones
                      /\ s = escrowAccounts[e].beneficiary
                      /\ escrowMilestones[<<e, m>>].status = MILESTONE_PENDING
            /\ /\ <<e, m>> \in DOMAIN escrowMilestones
               /\ escrowMilestones[<<e, m>>].status = MILESTONE_COMPLETED
               => CompleteMilestoneCode(s, e, m) \in ErrorCodes)
    /\ [][/\ Succeeded("complete-milestone") =>
               LET e == last'.escrowId
                   k == <<e, last'.milestoneId>>
               IN /\ last'.sender = escrowAccounts[e].beneficiary
                  /\ escrowMilestones[k].status = MILESTONE_PENDING
                  /\ escrowMilestones' =
                        [escrowMilestones EXCEPT ![k] =
                            [@ EXCEPT !.status = MILESTONE_COMPLETED,
                                      !.completedAt = now]]
                  /\ MilestoneTotal(milestoneCount', e) = MilestoneTotal(milestoneCount, e)
                  /\ GetMilestoneCount(e).completed + 1 = milestoneCount'[e].completed
                  /\ UNCHANGED <<escrowAccounts, escrowReleases, milestoneNonce,
                                 totalEscrowed, pendingEscrows, escrowHistory,
                                 escrowNonce, now>>
          /\ \A k \in DOMAIN escrowMilestones :
               escrowMilestones[k].status = MILESTONE_COMPLETED
                  => /\ escrowMilestones'[k].status = MILESTONE_COMPLETED
                     /\ escrowMilestones'[k].completedAt = escrowMilestones[k].completedAt]_vars

\* C32 witness: the beneficiary has just completed, at time 1000, a milestone
\* of an escrow from which 400,000 had been released before.
C32_Witness ==
    /\ After("complete-milestone")
    /\ now = 1000
    /\ last.pre.releasedAmount = 400000
    /\ last.pre.status = STATUS_PARTIALLY_RELEASED
    /\ escrowAccounts[last.escrowId] = last.pre
    /\ escrowMilestones[<<last.escrowId, last.milestoneId>>].status = MILESTONE_COMPLETED
    /\ escrowMilestones[<<last.escrowId, last.milestoneId>>].completedAt = 1000
    /\ last.sender = last.pre.beneficiary
    /\ DOMAIN escrowReleases = {<<last.escrowId, 1>>}

\* ------------------------------------------------------------------ C33
\* the successful calls that pay the beneficiary
ReleaseOps == {"release-funds", "release-milestone-funds"}

\* C33: the Release records are append-only.  A successful release-funds or
\* release-milestone-funds writes exactly one record, under a key of its
\* escrow that held no record before; no step removes or changes a record
\* that exists, and no other step adds one; the release ids in use are
\* 1..milestone-nonce, each under exactly one escrow, also when the
\* releases of two escrows interleave.
C33_ReleasesAppendOnly ==
    /\ [](/\ {k[2] : k \in DOMAIN escrowReleases} = 1..milestoneNonce
          /\ Cardinality(DOMAIN escrowReleases) = milestoneNonce)
    /\ [][/\ \A k \in DOMAIN escrowReleases :
               /\ k \in DOMAIN escrowReleases'
               /\ escrowReleases'[k] = escrowReleases[k]
          /\ last'.op \in ReleaseOps /\ last'.code = Ok
               => /\ <<last'.escrowId, milestoneNonce'>> \notin DOMAIN escrowReleases
                  /\ DOMAIN escrowReleases'
                        = DOMAIN escrowReleases \cup {<<last'.escrowId, milestoneNonce'>>}
          /\ ~(last'.op \in ReleaseOps /\ last'.code = Ok)
               => DOMAIN escrowReleases' = DOMAIN escrowReleases]_vars

\* C33 witness: three releases, the second from another escrow than the
\* first and the third, are all on record.
C33_Witness ==
    /\ last.op \in ReleaseOps
    /\ last.code = Ok
    /\ DOMAIN escrowReleases = {<<1, 1>>, <<2, 2>>, <<1, 3>>}
    /\ \A k \in DOMAIN escrowReleases : escrowReleases[k].amount = 400000

\* ------------------------------------------------------------------ C34
\* C34: Appealed is a dead end.  On an Appealed dispute assign-arbitrator,
\* vote-on-dispute, execute-ruling, auto-resolve-dispute and close-dispute
\* are rejected for every caller; in every step an Appealed dispute stays
\* Appealed and its dispute-outcomes record stays as it is, a further
\* successful appeal-decision included.
C34_AppealedDeadEnd ==
    /\ [](\A d \in DOMAIN disputes : disputes[d].status = STATUS_APPEALED =>
            /\ d \in DOMAIN disputeOutcomes
            /\ \A s \in DisputePrincipals :
                 /\ AssignArbitratorCode(s, d) # Ok
                 /\ \A o \in VoteOutcomes : VoteOnDisputeCode(s, d, o) # Ok
                 /\ ExecuteRulingCode(s, d) # Ok
                 /\ AutoResolveDisputeCode(d) # Ok
                 /\ CloseDisputeCode(d) # Ok)
    /\ [][\A d \in DOMAIN disputes : disputes[d].status = STATUS_APPEALED =>
            /\ d \in DOMAIN disputes'
            /\ disputes'[d].status = STATUS_APPEALED
            /\ d \in DOMAIN disputeOutcomes'
            /\ disputeOutcomes'[d] = disputeOutcomes[d]]_allvars

\* C34 witness: a party has appealed a dispute that was Appealed already, a
\* clock step after the first appeal; it is still Appealed.
C34_Witness ==
    /\ DisputeAfter("appeal-decision")
    /\ dlast.pre.status = STATUS_APPEALED
    /\ dlast.pre.updatedAt < now
    /\ disputes[dlast.disputeId].status = STATUS_APPEALED
    /\ CloseDisputeCode(dlast.disputeId) = DisputeErrInvalidStatus

\* ------------------------------------------------------------------ C35
\* What emergency-withdrawal paid out of escrow e, withdrawal and fee
\* together: the part of releasedAmount that no Release record accounts for,
\* since emergency-withdrawal alone raises releasedAmount without a record.
EmergencyPaid(e) == Unrecorded(escrowAccounts, escrowReleases, e)

\* Everything paid out of escrow e, the one escrow of its depositor: the
\* Release records, the refunds of refund-escrow and the emergency payout.
PaidOut(e) ==
    ReleasedSum(escrowReleases, e)
      + TotalRefunded(escrowHistory, escrowAccounts[e].depositor)
      + EmergencyPaid(e)

\* C35: conservation per escrow.  In every state the total paid out of an
\* escrow is at most its amount; no release-funds or release-milestone-funds
\* succeeds on an escrow that is Refunded; refund-escrow does not succeed on an
\* escrow whose depositor has been refunded before.
C35_Conservation ==
    /\ [](\A e \in Escrows : PaidOut(e) <= escrowAccounts[e].amount)
    /\ [][/\ last'.op \in ReleaseOps /\ last'.code = Ok
               => last'.pre.status # STATUS_REFUNDED
          /\ Succeeded("refund-escrow")
               => TotalRefunded(escrowHistory, last'.pre.depositor) = 0]_vars

\* ------------------------------------------------------------------ C36
\* The Release records written on account of milestone k: those of its escrow
\* whose reason is the milestone's description, the reason that
\* release-milestone-funds records (release-funds is called with other reasons).
MilestoneReleases(k) ==
    {r \in ReleaseKeys(escrowReleases, k[1]) :
        escrowReleases[r].reason = escrowMilestones[k].description}

\* C36: each milestone is paid at most once.  In every state at most one
\* Release record was written on account of a milestone, and the amounts
\* released on its account sum to at most the milestone's amount.
C36_MilestonePaidOnce ==
    \A k \in DOMAIN escrowMilestones :
        /\ Cardinality(MilestoneReleases(k)) <= 1
        /\ SumAmounts(escrowReleases, MilestoneReleases(k)) <= escrowMilestones[k].amount

\* ------------------------------------------------------------------ C37
\* the successful calls that resolve a dispute
ResolvingOps == {"execute-ruling", "auto-resolve-dispute"}

\* C37: a dispute has a dispute-outcomes record exactly when its status is
\* Resolved, Appealed or Closed, and total-disputes-resolved is the number of
\* outcome records; a record is written by a successful execute-ruling or
\* auto-resolve-dispute on a dispute that had none, by nothing else, and is
\* never changed or removed afterwards.
C37_OutcomeRecords ==
    /\ [](/\ DOMAIN disputeOutcomes \subseteq DOMAIN disputes
          /\ \A d \in DOMAIN disputes :
                d \in DOMAIN disputeOutcomes
                   <=> disputes[d].status \in
                          {STATUS_RESOLVED, STATUS_APPEALED, STATUS_CLOSED}
          /\ totalDisputesResolved = Cardinality(DOMAIN disputeOutcomes))
    /\ [][/\ \A d \in DOMAIN disputeOutcomes :
               /\ d \in DOMAIN disputeOutcomes'
               /\ disputeOutcomes'[d] = disputeOutcomes[d]
          /\ dlast'.op \in ResolvingOps /\ dlast'.code = Ok
               => /\ dlast'.disputeId \notin DOMAIN disputeOutcomes
                  /\ DOMAIN disputeOutcomes'
                        = DOMAIN disputeOutcomes \cup {dlast'.disputeId}
          /\ ~(dlast'.op \in ResolvingOps /\ dlast'.code = Ok)
               => DOMAIN disputeOutcomes' = DOMAIN disputeOutcomes]_allvars

\* C37 witness: of two disputes one was resolved by execute-ruling and then
\* appealed, the other by auto-resolve-dispute and then closed; both records
\* are there and total-disputes-resolved is 2.
C37_Witness ==
    /\ totalDisputesResolved = 2
    /\ \E d, e \in DOMAIN disputeOutcomes :
          /\ disputeOutcomes[d].outcome = OUTCOME_ADVERTISER_WINS
          /\ disputes[d].status = STATUS_APPEALED
          /\ disputeOutcomes[e].outcome = OUTCOME_SPLIT
          /\ ~disputeOutcomes[e].canAppeal
          /\ disputes[e].status = STATUS_CLOSED

\* ------------------------------------------------------------------ C38
\* the disputes assigned to the arbitrator: assign-arbitrator writes the
\* assignment once per dispute, since it requires the dispute Open
AssignedTo(arbitrator) ==
    {d \in DOMAIN arbitratorAssignments :
        arbitratorAssignments[d].arbitrator = arbitrator}

\* those of them resolved by execute-ruling: an assigned dispute is no
\* longer Open, so auto-resolve-dispute cannot have written its outcome
RuledBy(arbitrator) == AssignedTo(arbitrator) \cap DOMAIN disputeOutcomes

\* C38: for every arbitrator, in every state, casesResolved <= totalCases,
\* totalCases is the number of disputes ever assigned to the arbitrator and
\* casesResolved the number of those resolved by execute-ruling.
C38_ArbitratorStats ==
    \A a \in Arbitrators :
        LET stats == StatsOf(arbitratorStats, a)
        IN /\ stats.casesResolved <= stats.totalCases
           /\ stats.totalCases = Cardinality(AssignedTo(a))
           /\ stats.casesResolved = Cardinality(RuledBy(a))

\* ------------------------------------------------------------------ C39
\* the disputes resolved by auto-resolve-dispute: those with an outcome
\* record and no arbitrator, since execute-ruling requires an assignment and
\* auto-resolve-dispute an Open dispute, which has none
AutoResolved == DOMAIN disputeOutcomes \ DOMAIN arbitratorAssignments

\* C39: the read can-appeal agrees with appeal-decision.  In every state, for
\* every dispute id, can-appeal is true exactly when appeal-decision by the
\* advertiser would succeed, and exactly when appeal-decision by the
\* publisher would; for an id with no dispute it is false; and for a dispute
\* resolved by auto-resolve-dispute the record has can-appeal false, the
\* read is false and appeal-decision is rejected for every caller.
C39_CanAppealAgrees ==
    /\ \A d \in DisputeIds :
          IF d \in DOMAIN disputes
          THEN \A s \in Parties(d) : CanAppeal(d) <=> AppealDecisionCode(s, d) = Ok
          ELSE ~CanAppeal(d)
    /\ \A d \in AutoResolved :
          /\ ~disputeOutcomes[d].canAppeal
          /\ ~CanAppeal(d)
          /\ \A s \in DisputePrincipals : AppealDecisionCode(s, d) # Ok

\* C39 witness: a party has appealed within the window, some time after the
\* ruling; the read is true and the other party's appeal would succeed too.
C39_Witness ==
    /\ DisputeAfter("appeal-decision")
    /\ CanAppeal(dlast.disputeId)
    /\ Elapsed(dlast.disputeId) > 0
    /\ \A s \in Parties(dlast.disputeId) : AppealDecisionCode(s, dlast.disputeId) = Ok

\* ------------------------------------------------------------------ C40
\* the score after a loss: 5 lower; with the floor, 0 from 5 or less
ScoreAfterLoss(score, floored) ==
    IF floored /\ ~(score > ReputationStep) THEN 0 ELSE score - ReputationStep

\* What a successful execute-ruling does to dispute-history: each party's
\* total-disputes rises by 1, at most one party is credited a win, every
\* party that is not the recorded winner is recorded a loss, with wins
\* unchanged and the score of ScoreAfterLoss, under Split and Dismissed both
\* parties are, and no other history changes.
RulingUpdatesHistory(floored) ==
    DisputeSucceeded("execute-ruling") =>
        LET d == dlast'.disputeId
            parties == Parties(d)
            winner == disputeOutcomes'[d].winner
            Old(p) == PartyHistory(disputeHistory, p)
            New(p) == PartyHistory(disputeHistory', p)
        IN /\ \A p \in parties : New(p).totalDisputes = Old(p).totalDisputes + 1
           /\ Cardinality({p \in parties : New(p).disputesWon # Old(p).disputesWon}) <= 1
           /\ \A p \in parties \ {winner} :
                 /\ New(p).disputesLost = Old(p).disputesLost + 1
                 /\ New(p).disputesWon = Old(p).disputesWon
                 /\ New(p).reputationScore = ScoreAfterLoss(Old(p).reputationScore, floored)
           /\ disputeOutcomes'[d].outcome \in {OUTCOME_SPLIT, OUTCOME_DISMISSED}
                 => \A p \in parties :
                       New(p).disputesLost = Old(p).disputesLost + 1
           /\ \A p \in DisputePrincipals \ parties : New(p) = Old(p)

\* disputes-won + disputes-lost = total-disputes for every party
HistoryBalanced ==
    \A p \in DisputePrincipals :
        PartyHistory(disputeHistory, p).disputesWon
          + PartyHistory(disputeHistory, p).disputesLost
            = PartyHistory(disputeHistory, p).totalDisputes

\* auto-resolve-dispute changes no reputation and no arbitrator stats
AutoResolveLeavesHistory ==
    DisputeSucceeded("auto-resolve-dispute")
        => UNCHANGED <<disputeHistory, arbitratorStats>>

\* C40 as stated: each execute-ruling updates the history of both parties
\* once, credits at most one a win and records every party that is not the
\* winner a loss with its score lowered by 5; won + lost = total for every
\* party in every state; auto-resolve-dispute changes no reputation and no
\* arbitrator stats.
C40_RulingHistoryMinusFive ==
    /\ []HistoryBalanced
    /\ [][RulingUpdatesHistory(FALSE) /\ AutoResolveLeavesHistory]_allvars

\* C40, amended: as stated, but the score of a party recorded a loss is
\* lowered by 5 only down to 0: from 5 or less it becomes 0.
C40_RulingHistory ==
    /\ []HistoryBalanced
    /\ [][RulingUpdatesHistory(TRUE) /\ AutoResolveLeavesHistory]_allvars

\* C40 witness: a ruling for the publisher has just been executed on a
\* dispute whose advertiser had a score of 0: the advertiser has one more
\* loss and still 0, the publisher one more win.
C40_Witness ==
    /\ DisputeAfter("execute-ruling")
    /\ disputeOutcomes[dlast.disputeId].outcome = OUTCOME_PUBLISHER_WINS
    /\ disputeOutcomes[dlast.disputeId].winner = dlast.pre.publisher
    /\ Score(disputeHistory, dlast.pre.advertiser) = 0
    /\ PartyHistory(disputeHistory, dlast.pre.advertiser).disputesLost = MaxRulings + 1
    /\ PartyHistory(disputeHistory, dlast.pre.publisher).disputesWon = MaxRulings + 1

====
